---- MODULE Spec2Model ----
(***************************************************************************)
(* The conversation orchestrator of the chat backend: one user turn of     *)
(* _process_user_turn (backend/app/api/sessions.py) with its collaborators *)
(* - the inference endpoint (OllamaService.chat), the tool invoker         *)
(* (MCPService.execute), the trace collaborator (TraceService) and the     *)
(* message store.                                                          *)
(*                                                                         *)
(* Text is modelled as a sequence of tokens; the tokens " " and "\n" are   *)
(* whitespace and "_" is the underscore character, every other token is a  *)
(* run of characters holding neither.                                      *)
(***************************************************************************)
EXTENDS Integers, Sequences, FiniteSets, TLC

VARIABLES
    pc,               \* position of the turn in _process_user_turn; "raised" when an
                      \* exception has left it
    cfg,              \* the turn's environment: session settings and what the model may request
    db_messages,      \* rows of the messages table of the session, oldest first
    run_status,       \* status of the turn's TraceRun: "none", "running", "completed"
    steps,            \* TraceStep rows of the run, in insertion order
    llm_messages,     \* the message list built for the model
    tools_payload,    \* tool definitions built for the turn (their function names)
    tool_lookup,      \* function name -> (server_name, tool_name)
    assistant_text,   \* the reply being decided
    tool_iterations,  \* per-turn round counter
    tool_calls,       \* tool calls of the model response being processed
    call_idx,         \* index in tool_calls of the call being processed
    inflight,         \* the MCPService.execute call awaited, <<>> when none
    requests,         \* history: request_snapshot of every chat invocation
    responses,        \* history: outcome of every chat invocation
    exec_log,         \* history: start and end of every tool call processed
    reply,            \* the assistant message returned by the turn, <<>> before
    fn_call,          \* a call of one operation of MCPService made on its own
    fn_result,        \* what that call returned or raised, pending before
    session_pc,       \* position of one operation on a process-transport server
    server,           \* that operation and how its server behaves
    _process,         \* the child process: "none", "running", "exited",
                      \* "terminated", "killed"
    stdin_closed,     \* the child's input stream has been closed
    sent,             \* messages written to the child, in order
    _next_id,         \* _StdioSession._next_id
    outcome,          \* how the operation ended, "pending" before
    closed,           \* _StdioSession.__aexit__ has run to its end
    signals,          \* signals sent to the child, in order
    _client,          \* the HTTP client of a streaming-HTTP session: "none", "open",
                      \* "closed"
    _session_id,      \* the session token captured on a streaming-HTTP session
    turns,            \* the locals of the turns of different conversations that run
                      \* at the same time, by conversation
    rows              \* the messages table those turns share, oldest row first

\* the state of one user turn
turn_vars == <<pc, cfg, db_messages, run_status, steps, llm_messages, tools_payload,
               tool_lookup, assistant_text, tool_iterations, tool_calls, call_idx,
               inflight, requests, responses, exec_log, reply>>

\* the state of a call of MCPService made on its own
fn_vars == <<fn_call, fn_result>>

\* the state of one operation on a process-transport server
stdio_vars == <<session_pc, server, _process, stdin_closed, sent, _next_id, outcome,
                closed, signals>>

\* the state only a streaming-HTTP session has; its position, server, messages
\* sent, ids and outcome are held in the variables of stdio_vars
http_vars == <<_client, _session_id>>

\* the state of turns running at the same time
conc_vars == <<turns, rows>>

\* what a step of the turn leaves alone
outside_turn == <<fn_vars, stdio_vars, http_vars, conc_vars>>

\* what a call of MCPService made on its own leaves alone
outside_fn == <<turn_vars, stdio_vars, http_vars, conc_vars>>

\* what an operation on a process-transport server leaves alone
outside_stdio == <<turn_vars, fn_vars, http_vars, conc_vars>>

\* what an operation on a streaming-HTTP server leaves alone
outside_http == <<turn_vars, fn_vars, _process, stdin_closed, signals, conc_vars>>

vars == <<turn_vars, fn_vars, stdio_vars, http_vars, conc_vars>>

-----------------------------------------------------------------------------
(* Bounds of the model *)

\* most tool calls in one model response
MaxCalls == 2
\* most tool calls requested over one turn
MaxTurnCalls == 5
\* most executions of a tool that end in a transport failure over one turn
MaxFaults == 1

-----------------------------------------------------------------------------
(* Text helpers *)

IsSpace(t) == t \in {" ", "\n"}

RECURSIVE LStrip(_)
LStrip(s) == IF s # <<>> /\ IsSpace(Head(s)) THEN LStrip(Tail(s)) ELSE s

RECURSIVE RStrip(_)
RStrip(s) ==
    IF s # <<>> /\ IsSpace(s[Len(s)]) THEN RStrip(SubSeq(s, 1, Len(s) - 1)) ELSE s

\* str.strip()
Strip(s) == RStrip(LStrip(s))

\* "\n".join(parts)
RECURSIVE JoinLines(_)
JoinLines(parts) ==
    IF parts = <<>> THEN <<>>
    ELSE IF Len(parts) = 1 THEN parts[1]
    ELSE parts[1] \o <<"\n">> \o JoinLines(Tail(parts))

\* [x for x in s if Keep(x)]
RECURSIVE SelectNonEmpty(_)
SelectNonEmpty(parts) ==
    IF parts = <<>> THEN <<>>
    ELSE IF Head(parts) # <<>> THEN <<Head(parts)>> \o SelectNonEmpty(Tail(parts))
    ELSE SelectNonEmpty(Tail(parts))

-----------------------------------------------------------------------------
(* Fixed texts of the orchestrator *)

MODEL_UNREACHABLE_TEXT ==
    <<"I couldn't reach the model to craft a response right now.", " ",
      "Please try again in a moment.">>

TOOL_LOOP_TEXT ==
    <<"I ran into a tool loop and had to stop.", " ", "Please refine your request.">>

EMPTY_RESPONSE_TEXT ==
    <<"I could not produce a response right now.", " ",
      "Please try again or adjust your request.">>

max_tool_iterations == 4

-----------------------------------------------------------------------------
(* Tool names *)

_TOOL_NAME_SEPARATOR == <<"_", "_">>

_encode_tool_name(server_name, tool_name) ==
    server_name \o _TOOL_NAME_SEPARATOR \o tool_name

\* positions where the separator starts in encoded
SeparatorAt(encoded) ==
    {i \in 1..(Len(encoded) - 1) : encoded[i] = "_" /\ encoded[i + 1] = "_"}

\* decode_tool_name: ok = FALSE stands for the ValueError
decode_tool_name(encoded) ==
    IF SeparatorAt(encoded) = {}
    THEN [ok |-> FALSE, server_name |-> <<>>, tool_name |-> <<>>]
    ELSE LET i == CHOOSE k \in SeparatorAt(encoded) :
                      \A j \in SeparatorAt(encoded) : k <= j
         IN  [ok |-> TRUE,
              server_name |-> SubSeq(encoded, 1, i - 1),
              tool_name |-> SubSeq(encoded, i + 2, Len(encoded))]

-----------------------------------------------------------------------------
(* Tool servers and the tool catalog *)

Stub == <<"stub">>        \* process-transport server running tests/mcp_stub_server.py
Remote == <<"remote">>    \* a streaming-HTTP server whose replies are arbitrary
SayHello == <<"say", "_", "hello">>
RunTool == <<"run">>

\* further configured servers: "x" lists say_hello, "x_" has a name ending in
\* an underscore, "mixed" lists a tool without a name among two named ones
ServerX == <<"x">>
ServerTrailing == <<"x", "_">>
ServerMixed == <<"mixed">>

\* config.servers: the servers MCPService._get_server finds
ConfiguredServers ==
    {Stub, Remote, ServerX, ServerTrailing, ServerMixed, <<"filesystem-tools">>}

\* what tools/list of each server answers when the listing succeeds
ServerTools(server_name) ==
    IF server_name \in {Stub, ServerX} THEN <<SayHello>>
    ELSE IF server_name = ServerMixed THEN <<<<>>, SayHello, RunTool>>
    ELSE IF server_name = <<"filesystem-tools">>
    THEN <<<<"list", "_", "directory">>, <<"read", "_", "file">>>>
    ELSE <<RunTool>>

\* the build given up at the first server whose listing fails
RECURSIVE ListedPairsAborting(_, _)
ListedPairsAborting(server_names, failing) ==
    IF server_names = <<>> THEN <<>>
    ELSE LET s == Head(server_names)
             tools == ServerTools(s)
             own == [i \in 1..Len(tools) |-> [server_name |-> s, tool_name |-> tools[i]]]
         IN  IF s \in ConfiguredServers /\ s \notin failing
             THEN SelectSeq(own, LAMBDA p : p.tool_name # <<>>)
                      \o ListedPairsAborting(Tail(server_names), failing)
             ELSE <<>>

\* (server, tool) pairs of the servers whose listing succeeded, in build order;
\* a server that is not configured or whose listing failed contributes none
RECURSIVE ListedPairs(_, _)
ListedPairs(server_names, failing) ==
    IF server_names = <<>> THEN <<>>
    ELSE LET s == Head(server_names)
             tools == IF s \in ConfiguredServers /\ s \notin failing
                      THEN ServerTools(s) ELSE <<>>
             own == [i \in 1..Len(tools) |-> [server_name |-> s, tool_name |-> tools[i]]]
         IN  SelectSeq(own, LAMBDA p : p.tool_name # <<>>)
                 \o ListedPairs(Tail(server_names), failing)

RECURSIVE LookupOf(_)
LookupOf(pairs) ==
    IF pairs = <<>> THEN <<>>
    ELSE LET last == pairs[Len(pairs)]
         IN  (_encode_tool_name(last.server_name, last.tool_name) :> last)
                 @@ LookupOf(SubSeq(pairs, 1, Len(pairs) - 1))

\* MCPService.build_tool_definitions: (definitions, lookup)
build_tool_definitions(server_names, failing) ==
    LET pairs == ListedPairs(server_names, failing)
    IN  [definitions |->
             [i \in 1..Len(pairs) |->
                 _encode_tool_name(pairs[i].server_name, pairs[i].tool_name)],
         lookup |-> LookupOf(pairs)]

-----------------------------------------------------------------------------
(* Tool results *)

TextBlock(text) == [type |-> "text", text |-> text]

\* tools/call of tests/mcp_stub_server.py
StubCall(name, arguments) ==
    LET greeting_target ==
            IF "name" \in DOMAIN arguments THEN arguments["name"] ELSE "world"
        output == IF name # SayHello
                  THEN <<"Unknown tool '">> \o name \o <<"'">>
                  ELSE <<"Hello, ", greeting_target, "!">>
    IN  [content |-> <<TextBlock(output)>>, isError |-> name # SayHello]

\* a content block that is not text
ImageBlock == [type |-> "image", text |-> <<>>]

\* tools/call results an arbitrary server may answer
RemoteResults ==
    {[content |-> <<>>, isError |-> FALSE],
     [content |-> <<>>, isError |-> TRUE],
     [content |-> <<TextBlock(<<"quota", " ", "exceeded">>), TextBlock(<<>>),
                    TextBlock(<<"retry later", "\n">>)>>,
      isError |-> TRUE],
     [content |-> <<TextBlock(<<"rows">>), ImageBlock>>,
      structuredContent |-> [rows |-> 1],
      data |-> [total |-> 1]]}

\* json.dumps(item) of a content block that is not text
JsonItem(item) == <<"{type: ", item.type, "}">>

\* lines 292-297
TextParts(content_items) ==
    [i \in 1..Len(content_items) |->
        IF content_items[i].type = "text" THEN content_items[i].text
        ELSE JsonItem(content_items[i])]

\* the envelope without the structured payload and the original result
FormatToolResultTextOnly(result) ==
    LET content_items == IF "content" \in DOMAIN result THEN result.content ELSE <<>>
    IN  [content |-> content_items,
         isError |-> ("isError" \in DOMAIN result /\ result.isError),
         text |-> Strip(JoinLines(SelectNonEmpty(TextParts(content_items))))]

\* MCPService._format_tool_result
_format_tool_result(result) ==
    LET content_items == IF "content" \in DOMAIN result THEN result.content ELSE <<>>
        keys == {"content", "isError", "text", "raw"}
                    \cup ({"structuredContent", "data"} \cap DOMAIN result)
    IN  [k \in keys |->
            CASE k = "content" -> content_items
              [] k = "isError" -> ("isError" \in DOMAIN result /\ result.isError)
              [] k = "text" -> Strip(JoinLines(SelectNonEmpty(TextParts(content_items))))
              [] k = "raw" -> result
              [] OTHER -> result[k]]

\* The ways MCPService.execute can end: a result envelope, or an exception
Returned(result) == [raised |-> FALSE, output |-> result, exc |-> <<>>]
Raised(exc) ==
    [raised |-> TRUE, output |-> [content |-> <<>>, isError |-> FALSE, text |-> <<>>],
     exc |-> exc]

UnknownServerError(server_name) ==
    <<"Unknown MCP server '">> \o server_name \o <<"'">>
TransportError == <<"MCP server closed the connection unexpectedly">>

\* The built-in filesystem tools. A path is a text whose "/" tokens separate
\* its components; "." and ".." are components of their own and every other
\* token is a piece of a name, so that "ws" followed by "-evil" is the name
\* ws-evil. The workspace holds no symbolic link.
FilesystemTools == <<"filesystem-tools">>
ListDirectory == <<"list", "_", "directory">>
ReadFile == <<"read", "_", "file">>

workspace_root == <<"/", "ws">>

\* the components of a path text
RECURSIVE SplitPath(_)
SplitPath(path) ==
    IF path = <<>> THEN << <<>> >>
    ELSE LET rest == SplitPath(Tail(path))
         IN  IF Head(path) = "/" THEN << <<>> >> \o rest
             ELSE << <<Head(path)>> \o Head(rest) >> \o Tail(rest)

\* the components left once "", "." and ".." are resolved
RECURSIVE Normalize(_, _)
Normalize(components, stack) ==
    IF components = <<>> THEN stack
    ELSE LET c == Head(components)
         IN  IF c = <<>> \/ c = <<".">> THEN Normalize(Tail(components), stack)
             ELSE IF c = <<"..">>
             THEN Normalize(Tail(components),
                            IF stack = <<>> THEN <<>>
                            ELSE SubSeq(stack, 1, Len(stack) - 1))
             ELSE Normalize(Tail(components), Append(stack, c))

\* str() of the absolute path with these components
RECURSIVE PathText(_)
PathText(components) ==
    IF components = <<>> THEN <<>>
    ELSE <<"/">> \o Head(components) \o PathText(Tail(components))

\* (self.workspace_root / rel_path).resolve(), as its components
ResolveTarget(rel_path) ==
    Normalize(SplitPath(IF rel_path # <<>> /\ Head(rel_path) = "/" THEN rel_path
                        ELSE workspace_root \o <<"/">> \o rel_path),
              <<>>)

\* str.startswith
StartsWith(text, prefix) ==
    Len(prefix) <= Len(text) /\ SubSeq(text, 1, Len(prefix)) = prefix

\* _validate_workspace_path: TRUE when no ValueError is raised
ValidatesWorkspacePath(target) ==
    StartsWith(IF target = <<>> THEN <<"/">> ELSE PathText(target),
               PathText(Normalize(SplitPath(workspace_root), <<>>)))

\* what the disk holds
Directories ==
    {<<"/", "ws">>, <<"/", "ws", "/", "docs">>, <<"/", "ws", "-evil">>, <<"/", "etc">>}
Files ==
    {<<"/", "ws", "/", "a.txt">>, <<"/", "ws", "-evil", "/", "secret">>,
     <<"/", "etc", "/", "passwd">>}

\* sorted(os.listdir(target)), joined by newlines
ListDir(target) ==
    IF target = <<"/", "ws">> THEN <<"a.txt", "\n", "docs">>
    ELSE IF target = <<"/", "ws", "-evil">> THEN <<"secret">>
    ELSE IF target = <<"/", "etc">> THEN <<"passwd">>
    ELSE <<>>

\* MCPService._wrap_text_result
_wrap_text_result(text, data) ==
    LET payload == [content |-> <<TextBlock(text)>>, isError |-> FALSE, text |-> text,
                    data |-> data]
    IN  [content |-> payload.content, isError |-> payload.isError,
         text |-> payload.text, data |-> payload.data, raw |-> payload]

PathEscapes == <<"Path escapes workspace root">>

\* how a filesystem tool ends; accessed is the path listed or read, <<>> if none
FsRaised(exc) == [raised |-> TRUE, exc |-> exc, output |-> <<>>, accessed |-> <<>>]
FsReturned(output, accessed) ==
    [raised |-> FALSE, exc |-> <<>>, output |-> output, accessed |-> accessed]

\* MCPService._handle_filesystem_tool
_handle_filesystem_tool(tool_name, arguments) ==
    IF tool_name = ListDirectory
    THEN LET rel_path == IF "path" \in DOMAIN arguments THEN arguments.path ELSE <<".">>
             target == ResolveTarget(rel_path)
         IN  IF ~ValidatesWorkspacePath(target) THEN FsRaised(PathEscapes)
             ELSE IF PathText(target) \notin Directories
             THEN FsRaised(<<"Directory not found: ">> \o rel_path)
             ELSE FsReturned(
                      _wrap_text_result(
                          <<"Directory listing for ">> \o rel_path \o <<":", "\n">>
                              \o (IF ListDir(PathText(target)) = <<>>
                                  THEN <<"<empty directory>">>
                                  ELSE ListDir(PathText(target))),
                          [entries |-> ListDir(PathText(target)), path |-> rel_path]),
                      PathText(target))
    ELSE IF tool_name = ReadFile
    THEN LET rel_path == IF "path" \in DOMAIN arguments THEN arguments.path ELSE <<>>
             target == ResolveTarget(rel_path)
         IN  IF rel_path = <<>> THEN FsRaised(<<"'path' is required">>)
             ELSE IF ~ValidatesWorkspacePath(target) THEN FsRaised(PathEscapes)
             ELSE IF PathText(target) \notin Files
             THEN FsRaised(<<"File not found: ">> \o rel_path)
             ELSE FsReturned(
                      _wrap_text_result(
                          <<"File preview for ">> \o rel_path \o <<":", "\n", "{content}">>,
                          [path |-> rel_path, content |-> <<"{content}">>]),
                      PathText(target))
    ELSE FsRaised(<<"Unsupported tool '">> \o tool_name \o <<"' for filesystem-tools">>)

\* the result member of the tools/call response the server may answer
ToolCallResults(server_name, tool_name, arguments) ==
    IF server_name = Stub THEN {StubCall(tool_name, arguments)} ELSE RemoteResults

execute(server_name, tool_name, arguments) ==
    IF server_name \notin ConfiguredServers
    THEN {Raised(UnknownServerError(server_name))}
    ELSE IF server_name = FilesystemTools
    THEN LET handled == _handle_filesystem_tool(tool_name, arguments)
         IN  {IF handled.raised THEN Raised(handled.exc) ELSE Returned(handled.output)}
    ELSE {Raised(TransportError)} \cup
         {Returned(_format_tool_result(r)) :
             r \in ToolCallResults(server_name, tool_name, arguments)}

\* json.dumps(tool_output) of an envelope whose text is empty
JsonDumps(tool_output) ==
    <<"{content: ">> \o
    [i \in 1..Len(tool_output.content) |-> "{type: text, text: }"] \o
    <<", isError: ", IF tool_output.isError THEN "true" ELSE "false", ", text: }">>

-----------------------------------------------------------------------------
(* What the model may answer *)

NoArguments == [kind |-> "dict", value |-> <<>>, text |-> <<>>]
DictArguments(d) == [kind |-> "dict", value |-> d, text |-> <<>>]
\* a string that json.loads parses into the object d
JsonArguments(d) == [kind |-> "str", value |-> d, text |-> <<"{json}">>]
\* a string that json.loads rejects
RawArguments(t) == [kind |-> "badstr", value |-> <<>>, text |-> t]

ToolCall(name, raw_arguments) ==
    [function |-> [name |-> name, arguments |-> raw_arguments]]

HelloWorld ==
    ToolCall(_encode_tool_name(Stub, SayHello), DictArguments([name |-> "World"]))
RemoteRun == ToolCall(_encode_tool_name(Remote, RunTool), NoArguments)
BadName == ToolCall(<<"bad">>, NoArguments)

\* the calls a model response may hold
Calls ==
    {HelloWorld, RemoteRun, BadName,
     ToolCall(_encode_tool_name(Stub, SayHello), NoArguments),
     ToolCall(_encode_tool_name(Stub, SayHello), JsonArguments([name |-> "Tester"])),
     ToolCall(_encode_tool_name(Stub, SayHello), RawArguments(<<"World">>)),
     ToolCall(_encode_tool_name(Stub, <<"nope">>), NoArguments),
     ToolCall(_encode_tool_name(<<"ghost">>, <<"x">>), NoArguments),
     ToolCall(<<>>, NoArguments)}

\* the calls the model uses within one turn
CallPools == {{c} : c \in Calls} \cup {{HelloWorld, BadName}}

\* contents of a model message
Contents == {<<>>, <<" ">>, <<"Hi">>, <<" ", "Hi", "\n">>}

\* the sequences over S of length 1..n
SeqsUpTo(S, n) == UNION {[1..k -> S] : k \in 1..n}

\* the message payloads chat() may return when the turn has requested
\* `requested` tool calls so far
ModelMessages(c, requested) ==
    [content : c.contents, tool_calls : {<<>>}]
    \cup {[content |-> c.request_content, tool_calls |-> tc] :
            tc \in {t \in SeqsUpTo(c.calls, MaxCalls) :
                        requested + Len(t) <= MaxTurnCalls}}

\* tool calls requested over the turn so far
RECURSIVE RequestedCalls(_)
RequestedCalls(rs) ==
    IF rs = <<>> THEN 0 ELSE Len(Head(rs).tool_calls) + RequestedCalls(Tail(rs))

-----------------------------------------------------------------------------
(* The turn's environment *)

PersonaPrompt == <<"You are a helpful assistant.">>
ContextMessage == <<"Use the following retrieved context when it is relevant:">>
PriorHistory ==
    <<[role |-> "user", content |-> <<"Earlier question">>],
      [role |-> "assistant", content |-> <<"Earlier answer">>]>>

\* the results the servers other than the stub answer within one turn
UsualResults ==
    {r \in RemoteResults : "data" \notin DOMAIN r /\ (r.isError <=> r.content # <<>>)}

ResultPools ==
    {UsualResults,
     {r \in RemoteResults : "data" \notin DOMAIN r /\ r.isError /\ r.content = <<>>},
     {r \in RemoteResults : "data" \in DOMAIN r}}

\* turns with tool servers enabled
ToolCfgs ==
    [persona_prompt : {PersonaPrompt},
     context_message : {<<>>},
     history : {PriorHistory},
     enabled_mcp_servers : {<<Stub, Remote>>},
     failing : {{}},
     calls : CallPools,
     contents : {{<<>>, <<" ", "Hi", "\n">>}},
     request_content : {<<>>},
     results : {UsualResults}]
    \cup
    [persona_prompt : {<<>>},
     context_message : {<<>>},
     history : {<<>>},
     enabled_mcp_servers : {<<<<"ghost">>, Remote, Stub>>},
     failing : {{Remote}},
     calls : {{RemoteRun}},
     contents : {{<<>>, <<"Hi">>}},
     request_content : {<<"Let me check.", "\n">>},
     results : ResultPools]
    \cup
    [persona_prompt : {<<>>},
     context_message : {<<>>},
     history : {<<>>},
     enabled_mcp_servers : {<<Stub>>},
     failing : {{}},
     calls : {{RemoteRun}},
     contents : {{<<"Hi">>}},
     request_content : {<<>>},
     results : {UsualResults}]

\* turns for which no tool definition is built
PlainCfgs ==
    [persona_prompt : {<<>>, PersonaPrompt},
     context_message : {<<>>, ContextMessage},
     history : {<<>>, PriorHistory},
     enabled_mcp_servers : {<<>>, <<Stub>>},
     failing : {{Stub}},
     calls : {{HelloWorld}},
     contents : {Contents},
     request_content : {<<>>, <<"Let me check.", "\n">>},
     results : {UsualResults}]

Cfgs == ToolCfgs \cup PlainCfgs

UserContents == {<<"Hello">>}

NoCall == [server_name |-> <<>>, tool_name |-> <<>>, arguments |-> <<>>]

NoFnCall == [fn |-> "none"]
Pending == [state |-> "pending"]

\* the turn before _process_user_turn is entered
TurnInit ==
    /\ pc = "idle"
    /\ db_messages = cfg.history
    /\ run_status = "none"
    /\ steps = <<>>
    /\ llm_messages = <<>>
    /\ tools_payload = <<>>
    /\ tool_lookup = <<>>
    /\ assistant_text = <<>>
    /\ tool_iterations = 0
    /\ tool_calls = <<>>
    /\ call_idx = 0
    /\ inflight = NoCall
    /\ requests = <<>>
    /\ responses = <<>>
    /\ exec_log = <<>>
    /\ reply = <<>>

\* no call of MCPService is made on its own
FnIdle ==
    /\ fn_call = NoFnCall
    /\ fn_result = Pending

\* no operation on a process-transport server is made on its own
NoServer == [operation |-> "none"]
StdioIdle ==
    /\ session_pc = "off"
    /\ server = NoServer
    /\ _process = "none"
    /\ stdin_closed = FALSE
    /\ sent = <<>>
    /\ _next_id = 0
    /\ outcome = "pending"
    /\ closed = FALSE
    /\ signals = <<>>

\* no HTTP client exists and no session token is held
HttpIdle ==
    /\ _client = "none"
    /\ _session_id = <<>>

\* no turns run side by side
ConcIdle ==
    /\ turns = <<>>
    /\ rows = <<>>

Init ==
    /\ cfg \in Cfgs
    /\ TurnInit
    /\ FnIdle
    /\ StdioIdle
    /\ HttpIdle
    /\ ConcIdle

-----------------------------------------------------------------------------
(* _process_user_turn: building the context *)

Msg(role, content) ==
    [role |-> role, content |-> content, tool_calls |-> <<>>, tool_name |-> <<>>]

Step(type, label, failed) == [type |-> type, label |-> label, failed |-> failed]

allowed_roles == {"user", "assistant"}

\* the message list of the first model request; history ends with the turn's
\* own user message
BuildContext(history, persona_prompt, context_message, content) ==
    LET prior == SelectSeq(SubSeq(history, 1, Len(history) - 1),
                           LAMBDA m : m.role \in allowed_roles)
        latest == history[Len(history)]
    IN  (IF persona_prompt # <<>> THEN <<Msg("system", persona_prompt)>> ELSE <<>>)
        \o [i \in 1..Len(prior) |-> Msg(prior[i].role, prior[i].content)]
        \o (IF context_message # <<>> THEN <<Msg("system", context_message)>> ELSE <<>>)
        \o (IF history # <<>> /\ latest.role \in allowed_roles
            THEN <<Msg(latest.role, latest.content)>>
            ELSE <<Msg("user", content)>>)

\* lines 285-393: the user message is committed, the run started, the context
\* and the tool definitions built
StartTurn ==
    /\ pc = "idle"
    /\ \E content \in UserContents :
         LET history == Append(db_messages, [role |-> "user", content |-> content])
             built == build_tool_definitions(cfg.enabled_mcp_servers, cfg.failing)
         IN  /\ db_messages' = history
             /\ run_status' = "running"
             /\ steps' = <<Step("prompt", <<"User message">>, FALSE)>>
                         \o (IF cfg.context_message # <<>>
                             THEN <<Step("rag", <<"Retrieved chunks">>, FALSE)>>
                             ELSE <<>>)
             /\ llm_messages' = BuildContext(history, cfg.persona_prompt,
                                             cfg.context_message, content)
             /\ tools_payload' = built.definitions
             /\ tool_lookup' = built.lookup
    /\ assistant_text' = <<>>
    /\ tool_iterations' = 0
    /\ pc' = "invoke"
    /\ UNCHANGED outside_turn
    /\ UNCHANGED <<cfg, tool_calls, call_idx, inflight, requests, responses,
                   exec_log, reply>>

-----------------------------------------------------------------------------
(* _process_user_turn: the model invocation *)

\* the content taken as returned
AssistantContentVerbatim(message_payload) == message_payload.content

\* line 432
AssistantContent(message_payload) == Strip(message_payload.content)

\* the guard comparing against one round too many
LoopGuardTripsLate(iterations) == iterations > max_tool_iterations + 1

\* the guard left out
LoopGuardNever(iterations) == FALSE

\* line 457
LoopGuardTrips(iterations) == iterations > max_tool_iterations

\* the test for built tool definitions left out
RunsToolsWithoutDefinitions(calls, payload) == calls # <<>>

\* the test for tool calls left out
RunsToolsAnyResponse(calls, payload) == payload # <<>>

\* line 455
RunsTools(calls, payload) == calls # <<>> /\ payload # <<>>

\* line 556
FinalText(assistant_content, text) ==
    IF assistant_content # <<>> THEN assistant_content ELSE text

\* lines 396-409, 430-467, 556-557: chat() returns message_payload
ModelResponds ==
    /\ pc = "invoke"
    /\ \E m \in ModelMessages(cfg, RequestedCalls(responses)) :
         /\ requests' = Append(requests, llm_messages)
         /\ responses' = Append(responses, [kind |-> "message", content |-> m.content,
                                            tool_calls |-> m.tool_calls])
         /\ steps' = Append(steps,
                Step("model",
                     IF m.tool_calls # <<>> THEN <<"Assistant tool request">>
                                            ELSE <<"Assistant response">>,
                     FALSE))
         /\ llm_messages' = Append(llm_messages,
                [role |-> "assistant", content |-> m.content,
                 tool_calls |-> m.tool_calls, tool_name |-> <<>>])
         /\ IF RunsTools(m.tool_calls, tools_payload)
            THEN /\ tool_iterations' = tool_iterations + 1
                 /\ IF LoopGuardTrips(tool_iterations')
                    THEN /\ assistant_text' = TOOL_LOOP_TEXT
                         /\ pc' = "finish"
                         /\ UNCHANGED <<tool_calls, call_idx>>
                    ELSE /\ tool_calls' = m.tool_calls
                         /\ call_idx' = 1
                         /\ pc' = IF m.tool_calls # <<>> THEN "tools" ELSE "invoke"
                         /\ UNCHANGED assistant_text
            ELSE /\ assistant_text' = FinalText(AssistantContent(m), assistant_text)
                 /\ pc' = "finish"
                 /\ UNCHANGED <<tool_iterations, tool_calls, call_idx>>
    /\ UNCHANGED outside_turn
    /\ UNCHANGED <<cfg, db_messages, run_status, tools_payload, tool_lookup,
                   inflight, exec_log, reply>>

\* the RuntimeError of chat() not caught
ModelFailsPropagates ==
    /\ pc = "invoke"
    /\ requests' = Append(requests, llm_messages)
    /\ responses' = Append(responses, [kind |-> "error", content |-> <<>>,
                                       tool_calls |-> <<>>])
    /\ pc' = "raised"
    /\ UNCHANGED outside_turn
    /\ UNCHANGED <<cfg, db_messages, run_status, steps, llm_messages, tools_payload,
                   tool_lookup, assistant_text, tool_iterations, tool_calls,
                   call_idx, inflight, exec_log, reply>>

\* lines 410-428 (ollama.py 62-69): chat() raises RuntimeError
ModelFails ==
    /\ pc = "invoke"
    /\ requests' = Append(requests, llm_messages)
    /\ responses' = Append(responses, [kind |-> "error", content |-> <<>>,
                                       tool_calls |-> <<>>])
    /\ assistant_text' = MODEL_UNREACHABLE_TEXT
    /\ steps' = Append(steps, Step("model", <<"Model call failed">>, TRUE))
    /\ pc' = "finish"
    /\ UNCHANGED outside_turn
    /\ UNCHANGED <<cfg, db_messages, run_status, llm_messages, tools_payload,
                   tool_lookup, tool_iterations, tool_calls, call_idx, inflight,
                   exec_log, reply>>

-----------------------------------------------------------------------------
(* _process_user_turn: the tool calls of one model response *)

\* lines 474-482, 504 and mcp.py 107: the arguments handed to the tool
ParseArguments(raw_arguments) ==
    IF raw_arguments.kind = "badstr" THEN [raw |-> raw_arguments.text]
    ELSE raw_arguments.value

\* lines 484-490: found = FALSE stands for tool_info = None
ResolveToolInfo(function_name, lookup) ==
    IF function_name \in DOMAIN lookup
    THEN [found |-> TRUE, server_name |-> lookup[function_name].server_name,
          tool_name |-> lookup[function_name].tool_name]
    ELSE IF function_name # <<>> /\ decode_tool_name(function_name).ok
    THEN [found |-> TRUE,
          server_name |-> decode_tool_name(function_name).server_name,
          tool_name |-> decode_tool_name(function_name).tool_name]
    ELSE [found |-> FALSE, server_name |-> <<>>, tool_name |-> <<>>]

\* lines 506-512: the envelope built for a failed call
ErrorOutput(exc) ==
    LET error_text == <<"Tool invocation failed: ">> \o exc
    IN  [content |-> <<TextBlock(error_text)>>, isError |-> TRUE, text |-> error_text]

UnknownToolError(function_name) == <<"Unknown tool '">> \o function_name \o <<"'">>

\* lines 517-521 and 542-544
QualifiedName(tool_info) == tool_info.server_name \o <<":">> \o tool_info.tool_name

StepLabel(function_name, tool_info) ==
    IF function_name # <<>> THEN function_name
    ELSE IF tool_info.found THEN QualifiedName(tool_info)
    ELSE <<"mcp">>

ToolNameValue(function_name, tool_info) ==
    IF function_name # <<>> THEN function_name
    ELSE IF tool_info.found THEN QualifiedName(tool_info)
    ELSE <<>>

\* the text of the envelope, also when it is empty
ToolTextNoFallback(tool_output) == tool_output.text

\* line 541
ToolText(tool_output) ==
    IF tool_output.text # <<>> THEN tool_output.text ELSE JsonDumps(tool_output)

\* lines 546-552
ToolMessage(function_name, tool_info, tool_output) ==
    [role |-> "tool", content |-> ToolText(tool_output), tool_calls |-> <<>>,
     tool_name |-> ToolNameValue(function_name, tool_info)]

\* the calls of the response taken last to first
CurrentCallReversed == tool_calls[Len(tool_calls) + 1 - call_idx]

\* the call being processed
CurrentCall == tool_calls[call_idx]
CurrentName == CurrentCall.function.name

LogEntry(phase, tool_output, raised) ==
    [round |-> tool_iterations, idx |-> call_idx, phase |-> phase,
     function_name |-> CurrentName, output |-> tool_output, raised |-> raised]

NoOutput == [content |-> <<>>, isError |-> FALSE, text |-> <<>>]

\* line 469 and 554: the next call of the response, or the next model invocation
AfterCall(idx, calls) == IF idx < Len(calls) THEN "tools" ELSE "invoke"

\* the step of the tool call left unrecorded
CompleteCallStepDropped(tool_output, raised, log) ==
    LET tool_info == ResolveToolInfo(CurrentName, tool_lookup)
    IN  /\ steps' = steps
        /\ llm_messages' = Append(llm_messages,
                                  ToolMessage(CurrentName, tool_info, tool_output))
        /\ exec_log' = Append(log, LogEntry("end", tool_output, raised))
        /\ pc' = AfterCall(call_idx, tool_calls)
        /\ call_idx' = IF call_idx < Len(tool_calls) THEN call_idx + 1 ELSE call_idx
        /\ inflight' = NoCall

\* lines 517-554: the step is recorded, the tool message appended, and the loop
\* moves on
CompleteCall(tool_output, raised, log) ==
    LET tool_info == ResolveToolInfo(CurrentName, tool_lookup)
    IN  /\ steps' = Append(steps, Step("mcp", StepLabel(CurrentName, tool_info),
                                        tool_output.isError))
        /\ llm_messages' = Append(llm_messages,
                                  ToolMessage(CurrentName, tool_info, tool_output))
        /\ exec_log' = Append(log, LogEntry("end", tool_output, raised))
        /\ pc' = AfterCall(call_idx, tool_calls)
        /\ call_idx' = IF call_idx < Len(tool_calls) THEN call_idx + 1 ELSE call_idx
        /\ inflight' = NoCall

\* executions that ended in a transport failure so far
Faults(log) ==
    Cardinality({i \in 1..Len(log) :
        log[i].phase = "end" /\ log[i].output = ErrorOutput(TransportError)})

\* lines 470-501: the call names a tool; MCPService.execute is awaited
StartToolCall ==
    /\ pc = "tools"
    /\ ResolveToolInfo(CurrentName, tool_lookup).found
    /\ LET tool_info == ResolveToolInfo(CurrentName, tool_lookup)
       IN  inflight' = [server_name |-> tool_info.server_name,
                        tool_name |-> tool_info.tool_name,
                        arguments |-> ParseArguments(CurrentCall.function.arguments)]
    /\ exec_log' = Append(exec_log, LogEntry("start", NoOutput, FALSE))
    /\ pc' = "awaitTool"
    /\ UNCHANGED outside_turn
    /\ UNCHANGED <<cfg, db_messages, run_status, steps, llm_messages, tools_payload,
                   tool_lookup, assistant_text, tool_iterations, tool_calls,
                   call_idx, requests, responses, reply>>

\* lines 470-494, 506-554: the call names no tool; ValueError("Unknown tool")
RejectToolCall ==
    /\ pc = "tools"
    /\ ~ResolveToolInfo(CurrentName, tool_lookup).found
    /\ CompleteCall(ErrorOutput(UnknownToolError(CurrentName)), TRUE,
                    Append(exec_log, LogEntry("start", NoOutput, FALSE)))
    /\ UNCHANGED outside_turn
    /\ UNCHANGED <<cfg, db_messages, run_status, tools_payload, tool_lookup,
                   assistant_text, tool_iterations, tool_calls, requests,
                   responses, reply>>

\* the envelope is one the servers of the turn answer
Answered(tool_output) ==
    inflight.server_name = Stub \/ tool_output.raw \in cfg.results

\* lines 501-505, 517-554: MCPService.execute returns an envelope
ExecuteReturns ==
    /\ pc = "awaitTool"
    /\ \E o \in execute(inflight.server_name, inflight.tool_name, inflight.arguments) :
         /\ ~o.raised
         /\ Answered(o.output)
         /\ CompleteCall(o.output, FALSE, exec_log)
    /\ UNCHANGED outside_turn
    /\ UNCHANGED <<cfg, db_messages, run_status, tools_payload, tool_lookup,
                   assistant_text, tool_iterations, tool_calls, requests,
                   responses, reply>>

\* the exception of MCPService.execute ending the turn
ExecuteRaisesAborts ==
    /\ pc = "awaitTool"
    /\ \E o \in execute(inflight.server_name, inflight.tool_name, inflight.arguments) :
         /\ o.raised
         /\ exec_log' = Append(exec_log, LogEntry("end", ErrorOutput(o.exc), TRUE))
         /\ assistant_text' = ErrorOutput(o.exc).text
    /\ pc' = "finish"
    /\ inflight' = NoCall
    /\ UNCHANGED outside_turn
    /\ UNCHANGED <<cfg, db_messages, run_status, steps, llm_messages, tools_payload,
                   tool_lookup, tool_iterations, tool_calls, call_idx, requests,
                   responses, reply>>

\* lines 506-554: MCPService.execute raises
ExecuteRaises ==
    /\ pc = "awaitTool"
    /\ \E o \in execute(inflight.server_name, inflight.tool_name, inflight.arguments) :
         /\ o.raised
         /\ o.exc = TransportError => Faults(exec_log) < MaxFaults
         /\ CompleteCall(ErrorOutput(o.exc), TRUE, exec_log)
    /\ UNCHANGED outside_turn
    /\ UNCHANGED <<cfg, db_messages, run_status, tools_payload, tool_lookup,
                   assistant_text, tool_iterations, tool_calls, requests,
                   responses, reply>>

-----------------------------------------------------------------------------
(* _process_user_turn: the reply *)

\* the substitution of an empty reply left out
ReplyTextNoFallback(text) == text

\* lines 559-563
ReplyText(text) == IF text = <<>> THEN EMPTY_RESPONSE_TEXT ELSE text

\* the reply persisted with finish_run left out
FinishTurnRunOpen ==
    /\ pc = "finish"
    /\ assistant_text' = ReplyText(assistant_text)
    /\ db_messages' = Append(db_messages,
                             [role |-> "assistant", content |-> assistant_text'])
    /\ reply' = assistant_text'
    /\ pc' = "done"
    /\ UNCHANGED outside_turn
    /\ UNCHANGED <<cfg, run_status, steps, llm_messages, tools_payload, tool_lookup,
                   tool_iterations, tool_calls, call_idx, inflight, requests,
                   responses, exec_log>>

\* lines 559-579
FinishTurn ==
    /\ pc = "finish"
    /\ assistant_text' = ReplyText(assistant_text)
    /\ db_messages' = Append(db_messages,
                             [role |-> "assistant", content |-> assistant_text'])
    /\ run_status' = "completed"
    /\ reply' = assistant_text'
    /\ pc' = "done"
    /\ UNCHANGED outside_turn
    /\ UNCHANGED <<cfg, steps, llm_messages, tools_payload, tool_lookup,
                   tool_iterations, tool_calls, call_idx, inflight, requests,
                   responses, exec_log>>

Next ==
    \/ StartTurn
    \/ ModelResponds
    \/ ModelFails
    \/ StartToolCall
    \/ RejectToolCall
    \/ ExecuteReturns
    \/ ExecuteRaises
    \/ FinishTurn

Spec == Init /\ [][Next]_vars

\* every awaited call of the turn returns or fails, and the turn is resumed
FairSpec == Spec /\ WF_vars(Next)

-----------------------------------------------------------------------------
(* The trace collaborator failing: start_run, add_step and finish_run are     *)
(* awaited with no handler around them, so what they raise leaves the turn    *)

\* lines 285-302: the user message is committed, then start_run or the add_step
\* of the prompt step raises
TraceRaisesAtStart ==
    /\ pc = "idle"
    /\ \E content \in UserContents :
         db_messages' = Append(db_messages, [role |-> "user", content |-> content])
    /\ \E started \in BOOLEAN :
         run_status' = IF started THEN "running" ELSE "none"
    /\ pc' = "raised"
    /\ UNCHANGED outside_turn
    /\ UNCHANGED <<cfg, steps, llm_messages, tools_payload, tool_lookup,
                   assistant_text, tool_iterations, tool_calls, call_idx, inflight,
                   requests, responses, exec_log, reply>>

\* lines 404-445: chat() has returned or raised RuntimeError, then the add_step
\* of the model step raises
TraceRaisesAtModelStep ==
    /\ pc = "invoke"
    /\ requests' = Append(requests, llm_messages)
    /\ \E r \in {[kind |-> "message", content |-> m.content, tool_calls |-> m.tool_calls] :
                    m \in ModelMessages(cfg, RequestedCalls(responses))}
                \cup {[kind |-> "error", content |-> <<>>, tool_calls |-> <<>>]} :
         /\ responses' = Append(responses, r)
         /\ assistant_text' = IF r.kind = "error" THEN MODEL_UNREACHABLE_TEXT
                              ELSE assistant_text
    /\ pc' = "raised"
    /\ UNCHANGED outside_turn
    /\ UNCHANGED <<cfg, db_messages, run_status, steps, llm_messages, tools_payload,
                   tool_lookup, tool_iterations, tool_calls, call_idx, inflight,
                   exec_log, reply>>

\* lines 492-533: the tool call has produced its envelope, then the add_step of
\* the mcp step raises
TraceRaisesAtToolStep ==
    /\ \/ /\ pc = "tools"
          /\ ~ResolveToolInfo(CurrentName, tool_lookup).found
          /\ exec_log' = Append(Append(exec_log, LogEntry("start", NoOutput, FALSE)),
                                LogEntry("end", ErrorOutput(UnknownToolError(CurrentName)),
                                         TRUE))
       \/ /\ pc = "awaitTool"
          /\ \E o \in execute(inflight.server_name, inflight.tool_name,
                              inflight.arguments) :
               exec_log' = Append(exec_log,
                                  LogEntry("end",
                                           IF o.raised THEN ErrorOutput(o.exc)
                                                       ELSE o.output,
                                           o.raised))
    /\ pc' = "raised"
    /\ inflight' = NoCall
    /\ UNCHANGED outside_turn
    /\ UNCHANGED <<cfg, db_messages, run_status, steps, llm_messages, tools_payload,
                   tool_lookup, assistant_text, tool_iterations, tool_calls,
                   call_idx, requests, responses, reply>>

\* lines 559-576: the assistant message is added to the database session, then
\* finish_run raises before the commit
TraceRaisesAtFinish ==
    /\ pc = "finish"
    /\ assistant_text' = ReplyText(assistant_text)
    /\ pc' = "raised"
    /\ UNCHANGED outside_turn
    /\ UNCHANGED <<cfg, db_messages, run_status, steps, llm_messages, tools_payload,
                   tool_lookup, tool_iterations, tool_calls, call_idx, inflight,
                   requests, responses, exec_log, reply>>

TraceNext ==
    \/ Next
    \/ TraceRaisesAtStart
    \/ TraceRaisesAtModelStep
    \/ TraceRaisesAtToolStep
    \/ TraceRaisesAtFinish

\* the turn with a trace collaborator that may raise
TraceSpec == Init /\ [][TraceNext]_vars

-----------------------------------------------------------------------------
(* The collaborators awaited outside any handler: what _store_upload,         *)
(* RAGService.retrieve or OllamaService.chat raise leaves the turn            *)

\* lines 285-344: the user message is committed and the prompt step recorded,
\* then _store_upload rejects a file (lines 218-219, 222-223) or retrieve raises
RaisesAfterCommit ==
    /\ pc = "idle"
    /\ \E content \in UserContents :
         db_messages' = Append(db_messages, [role |-> "user", content |-> content])
    /\ run_status' = "running"
    /\ steps' = <<Step("prompt", <<"User message">>, FALSE)>>
    /\ pc' = "raised"
    /\ UNCHANGED outside_turn
    /\ UNCHANGED <<cfg, llm_messages, tools_payload, tool_lookup, assistant_text,
                   tool_iterations, tool_calls, call_idx, inflight, requests,
                   responses, exec_log, reply>>

\* lines 404-410: chat() raises an exception that is not a RuntimeError, which
\* the handler of line 410 does not catch
ModelRaisesUnexpected ==
    /\ pc = "invoke"
    /\ requests' = Append(requests, llm_messages)
    /\ pc' = "raised"
    /\ UNCHANGED outside_turn
    /\ UNCHANGED <<cfg, db_messages, run_status, steps, llm_messages, tools_payload,
                   tool_lookup, assistant_text, tool_iterations, tool_calls,
                   call_idx, inflight, responses, exec_log, reply>>

FailNext ==
    \/ Next
    \/ RaisesAfterCommit
    \/ ModelRaisesUnexpected

\* the turn with collaborators that may raise
FailSpec == Init /\ [][FailNext]_vars

TypeOK ==
    /\ pc \in {"idle", "invoke", "tools", "awaitTool", "finish", "done", "raised"}
    /\ tool_iterations \in 0..(max_tool_iterations + 1)
    /\ run_status \in {"none", "running", "completed"}

-----------------------------------------------------------------------------
(* Observations on a turn, used by the properties below *)

ToolsBuilt == tools_payload # <<>>

RequestsTools(r) == r.kind = "message" /\ r.tool_calls # <<>>

\* model responses of the turn that request tool calls
ToolRequests == {k \in 1..Len(responses) : RequestsTools(responses[k])}

StepsOfType(type) == SelectSeq(steps, LAMBDA st : st.type = type)

TurnEnded == pc \in {"finish", "done"}

\* names of the calls of a sequence of responses, flattened in order
RECURSIVE CallNames(_)
CallNames(rs) ==
    IF rs = <<>> THEN <<>>
    ELSE [i \in 1..Len(Head(rs).tool_calls) |-> Head(rs).tool_calls[i].function.name]
             \o CallNames(Tail(rs))

-----------------------------------------------------------------------------
(* The loop guard *)

\* C1: when tool definitions were built, the round counter equals the number
\* of model responses that requested tool calls, tool calls are executed for
\* the first 4 such responses only, and on the 5th the turn ends with the
\* tool-loop text without executing any of its calls.
C1_RoundLimit ==
    (pc # "idle" /\ ToolsBuilt) =>
        /\ tool_iterations = Cardinality(ToolRequests)
        /\ \A i \in 1..Len(exec_log) :
               /\ exec_log[i].round \in 1..max_tool_iterations
               /\ exec_log[i].round \in ToolRequests
        /\ Cardinality({exec_log[i].round : i \in 1..Len(exec_log)})
               <= max_tool_iterations
        /\ Cardinality(ToolRequests) = max_tool_iterations + 1 =>
               /\ TurnEnded
               /\ assistant_text = TOOL_LOOP_TEXT
               /\ pc = "done" => reply = TOOL_LOOP_TEXT

C1_Witness ==
    /\ pc = "done"
    /\ ToolsBuilt
    /\ Cardinality(ToolRequests) = max_tool_iterations + 1
    /\ reply = TOOL_LOOP_TEXT
    /\ \E i \in 1..Len(exec_log) : exec_log[i].round = max_tool_iterations

\* C2: after 5 consecutive model responses with tool calls the turn has ended
\* with the tool-loop text, the run holds 5 model steps, and its mcp steps are
\* those of the calls of the first 4 responses, in order.
C2_FiveToolResponses ==
    (Len(responses) >= max_tool_iterations + 1
     /\ \A k \in 1..(max_tool_iterations + 1) : RequestsTools(responses[k])) =>
        /\ TurnEnded
        /\ Len(responses) = max_tool_iterations + 1
        /\ assistant_text = TOOL_LOOP_TEXT
        /\ pc = "done" => reply = TOOL_LOOP_TEXT
        /\ Len(StepsOfType("model")) = max_tool_iterations + 1
        /\ LET names == CallNames(SubSeq(responses, 1, max_tool_iterations))
               mcp == StepsOfType("mcp")
           IN  /\ Len(mcp) = Len(names)
               /\ \A i \in 1..Len(names) :
                      mcp[i].label = IF names[i] # <<>> THEN names[i] ELSE <<"mcp">>

C2_Witness ==
    /\ pc = "done"
    /\ Len(responses) = max_tool_iterations + 1
    /\ \A k \in 1..Len(responses) : RequestsTools(responses[k])
    /\ Len(StepsOfType("mcp")) >= max_tool_iterations
    /\ reply = TOOL_LOOP_TEXT

\* C3: every turn ends, and the model is invoked at most 5 times in it,
\* whatever the model answers.
C3_TurnTerminates ==
    <>(pc = "done") /\ [](Len(requests) <= max_tool_iterations + 1)

C3_Witness == pc = "done" /\ Len(requests) = max_tool_iterations + 1

-----------------------------------------------------------------------------
(* Failures of the collaborators *)

ModelFailedStep == Step("model", <<"Model call failed">>, TRUE)

\* C4: a failed model invocation is the last of the turn; the turn goes on to
\* its end with the model-unreachable text as reply, exactly one failed model
\* step is recorded, and no exception leaves the turn.
C4_ModelFailure ==
    \A k \in 1..Len(responses) :
        responses[k].kind = "error" =>
            /\ k = Len(responses)
            /\ Len(requests) = k
            /\ TurnEnded
            /\ assistant_text = MODEL_UNREACHABLE_TEXT
            /\ steps[Len(steps)] = ModelFailedStep
            /\ Len(SelectSeq(steps, LAMBDA st : st.failed /\ st.type = "model")) = 1
            /\ pc = "done" =>
                   /\ reply = MODEL_UNREACHABLE_TEXT
                   /\ db_messages[Len(db_messages)] =
                          [role |-> "assistant", content |-> MODEL_UNREACHABLE_TEXT]

C4_Witness ==
    /\ pc = "done"
    /\ Len(responses) > 1
    /\ responses[Len(responses)].kind = "error"
    /\ reply = MODEL_UNREACHABLE_TEXT

\* C5: a tool call whose execution raised yields an envelope with isError
\* true, is followed by the next call of the same response when there is one,
\* and after the last call the model is invoked again.
C5_ToolFailureIsolated ==
    \A i \in 1..Len(exec_log) :
        LET e == exec_log[i]
            calls == responses[e.round].tool_calls
        IN  (e.phase = "end" /\ e.raised) =>
                /\ e.output.isError
                /\ e.output.text # <<>>
                /\ pc # "raised"
                /\ e.idx < Len(calls) =>
                       IF i < Len(exec_log)
                       THEN /\ exec_log[i + 1].phase = "start"
                            /\ exec_log[i + 1].round = e.round
                            /\ exec_log[i + 1].idx = e.idx + 1
                       ELSE pc = "tools" /\ call_idx = e.idx + 1
                /\ e.idx = Len(calls) => (Len(requests) > e.round \/ pc = "invoke")

C5_Witness ==
    /\ pc = "done"
    /\ Len(requests) = 2
    /\ Len(exec_log) = 4
    /\ exec_log[2].raised
    /\ exec_log[2].output = ErrorOutput(TransportError)
    /\ exec_log[4].phase = "end" /\ ~exec_log[4].raised

\* C6: the calls of a response are processed one at a time in the order of
\* the response - each starts only after the one before it has ended - and
\* the tool messages stand in the message list in that order.
C6_SequentialInOrder ==
    /\ pc = "awaitTool" <=>
           (exec_log # <<>> /\ exec_log[Len(exec_log)].phase = "start")
    /\ \A i \in 1..Len(exec_log) :
           LET e == exec_log[i]
               calls == responses[e.round].tool_calls
           IN  /\ e.idx \in 1..Len(calls)
               /\ e.function_name = calls[e.idx].function.name
               /\ e.phase = IF i % 2 = 1 THEN "start" ELSE "end"
               /\ i % 2 = 0 =>
                      /\ exec_log[i - 1].round = e.round
                      /\ exec_log[i - 1].idx = e.idx
                      /\ LET m == llm_messages[Len(requests[e.round]) + 1 + e.idx]
                         IN  /\ m.role = "tool"
                             /\ m.tool_name = e.function_name
               /\ (i % 2 = 1 /\ i = 1) => (e.round = 1 /\ e.idx = 1)
               /\ (i % 2 = 1 /\ i > 1) =>
                      LET before == exec_log[i - 1]
                      IN  IF before.idx < Len(responses[before.round].tool_calls)
                          THEN e.round = before.round /\ e.idx = before.idx + 1
                          ELSE e.round = before.round + 1 /\ e.idx = 1

C6_Witness ==
    /\ pc = "invoke"
    /\ Len(exec_log) = 4
    /\ exec_log[2].function_name # exec_log[4].function_name
    /\ llm_messages[Len(llm_messages) - 1].tool_name = exec_log[2].function_name
    /\ llm_messages[Len(llm_messages)].tool_name = exec_log[4].function_name

-----------------------------------------------------------------------------
(* The messages fed back to the model *)

\* the envelope logged for call idx of round
ResultOf(round, idx) ==
    LET i == CHOOSE n \in 1..Len(exec_log) :
                 /\ exec_log[n].phase = "end"
                 /\ exec_log[n].round = round
                 /\ exec_log[n].idx = idx
    IN  exec_log[i]

\* request k repeats request k-1, then holds the assistant entry of response
\* k-1, then one tool message per call of that response
FeedsBack(k, Content(_)) ==
    LET prev == requests[k - 1]
        asked == responses[k - 1]
        req == requests[k]
    IN  /\ Len(req) = Len(prev) + 1 + Len(asked.tool_calls)
        /\ SubSeq(req, 1, Len(prev)) = prev
        /\ req[Len(prev) + 1] =
               [role |-> "assistant", content |-> asked.content,
                tool_calls |-> asked.tool_calls, tool_name |-> <<>>]
        /\ \A j \in 1..Len(asked.tool_calls) :
               LET m == req[Len(prev) + 1 + j]
                   e == ResultOf(k - 1, j)
               IN  /\ m.role = "tool"
                   /\ m.content = Content(e.output)
                   /\ (asked.tool_calls[j] = HelloWorld /\ ~e.raised) =>
                          m.content = <<"Hello, ", "World", "!">>

\* C7 as stated: every tool message of a later request carries the text of
\* its call's result.
C7_ToolMessagesCarryText ==
    \A k \in 2..Len(requests) : FeedsBack(k, LAMBDA o : o.text)

\* C7, amended: every tool message of a later request carries the text of its
\* call's result, or the JSON serialisation of the result envelope when that
\* text is empty.
C7_ToolMessagesCarryTextOrJson ==
    \A k \in 2..Len(requests) :
        FeedsBack(k, LAMBDA o : IF o.text # <<>> THEN o.text ELSE JsonDumps(o))

C7_Witness ==
    /\ Len(requests) = 2
    /\ responses[1].tool_calls = <<HelloWorld>>
    /\ requests[2][Len(requests[2])].content = <<"Hello, ", "World", "!">>
    /\ requests[2][Len(requests[2])].role = "tool"

-----------------------------------------------------------------------------
(* The reply *)

LastResponse == responses[Len(responses)]

EndsWithAnswer ==
    pc = "done" /\ LastResponse.kind = "message" /\ LastResponse.tool_calls = <<>>

-----------------------------------------------------------------------------
(* C11: a failure of the trace collaborator (start_run, add_step or         *)
(* finish_run raising) does not abort the turn: no exception leaves the turn *)
(* before an assistant reply is persisted and returned. Stated for the turn  *)
(* with a trace collaborator that may raise (TraceSpec).                     *)

C11_TraceFailureDoesNotAbort ==
    pc = "raised" => (reply # <<>> /\ db_messages[Len(db_messages)].role = "assistant")

-----------------------------------------------------------------------------
(* C12: every model invocation and every tool execution has its trace step  *)
(* recorded before the turn takes its next step, whether it succeeded or     *)
(* failed: the model step of response k precedes the steps of the tool calls *)
(* of response k, the step of a tool call is recorded before the next call   *)
(* starts and before the model is invoked again, there are as many model     *)
(* steps as model invocations and as many tool steps as tool calls processed.*)

StartEntries == SelectSeq(exec_log, LAMBDA e : e.phase = "start")
EndEntries == SelectSeq(exec_log, LAMBDA e : e.phase = "end")

\* how many of the first k steps have the type
StepsUpTo(k, type) == Cardinality({j \in 1..k : steps[j].type = type})

C12_StepsRecordedBeforeProceeding ==
    /\ Len(StepsOfType("model")) = Len(requests)
    /\ Len(StepsOfType("mcp")) = Len(EndEntries)
    /\ Len(StartEntries) = Len(EndEntries) + (IF pc = "awaitTool" THEN 1 ELSE 0)
    /\ \A j \in 1..Len(responses) :
         StepsOfType("model")[j].failed = (responses[j].kind = "error")
    /\ \A k \in 1..Len(steps) :
         steps[k].type = "mcp" =>
            LET e == EndEntries[StepsUpTo(k, "mcp")]
            IN  /\ StepsUpTo(k, "model") = e.round
                /\ steps[k].failed = e.output.isError

C12_Witness ==
    /\ pc = "done"
    /\ responses[Len(responses)].kind = "error"
    /\ \E i, j \in 1..Len(EndEntries) :
         /\ EndEntries[i].raised
         /\ ~EndEntries[j].output.isError
         /\ EndEntries[i].round # EndEntries[j].round

-----------------------------------------------------------------------------
(* Operations of MCPService called on their own: fn_call is the call and     *)
(* fn_result what it returned or raised                                       *)

\* longest server or tool name tried, in tokens
MaxNameLen == 3

\* a name is made of runs of letters ("x") and underscore characters
NameTokens == {"x", "_"}
Names == SeqsUpTo(NameTokens, MaxNameLen)

\* _TOOL_NAME_SEPARATOR in name
HasSeparator(name) == SeparatorAt(name) # {}

FnReturned(value) == [state |-> "returned", value |-> value]
FnRaised(exc) == [state |-> "raised", exc |-> exc]

EncodeCalls == [fn : {"encode"}, server_name : Names, tool_name : Names]

\* MCPService._encode_tool_name(server_name, tool_name)
CallEncodeToolName ==
    /\ fn_call.fn = "encode"
    /\ fn_result = Pending
    /\ fn_result' = FnReturned(_encode_tool_name(fn_call.server_name, fn_call.tool_name))
    /\ UNCHANGED <<fn_call, outside_fn>>

MalformedToolName(encoded) == <<"Malformed tool name '">> \o encoded \o <<"'">>

\* MCPService.decode_tool_name applied to what _encode_tool_name returned
CallDecodeToolName ==
    /\ fn_call.fn = "encode"
    /\ fn_result.state = "returned"
    /\ fn_call' = [fn |-> "decode", encoded |-> fn_result.value,
                   server_name |-> fn_call.server_name,
                   tool_name |-> fn_call.tool_name]
    /\ fn_result' = LET decoded == decode_tool_name(fn_result.value)
                    IN  IF decoded.ok
                        THEN FnReturned(<<decoded.server_name, decoded.tool_name>>)
                        ELSE FnRaised(MalformedToolName(fn_result.value))
    /\ UNCHANGED outside_fn

\* most server names handed to one build_tool_definitions
MaxServers == 2

Ghost == <<"ghost">>    \* a server name that is not configured

BuildCalls ==
    [fn : {"build"},
     server_names : {<<>>} \cup SeqsUpTo({ServerX, ServerTrailing, ServerMixed, Stub, Ghost},
                                        MaxServers),
     failing : SUBSET {ServerX, Stub}]

\* MCPService.build_tool_definitions(server_names); the listing of the
\* servers of fn_call.failing raises
CallBuildToolDefinitions ==
    /\ fn_call.fn = "build"
    /\ fn_result = Pending
    /\ fn_result' = FnReturned(build_tool_definitions(fn_call.server_names,
                                                      fn_call.failing))
    /\ UNCHANGED <<fn_call, outside_fn>>

ExecuteCalls ==
    [fn : {"execute"},
     server_name : {Stub, Remote, Ghost},
     tool_name : {SayHello, RunTool},
     arguments : {<<>>, [name |-> "Tester"]}]

\* MCPService.execute(server_name, tool_name, arguments)
CallExecute ==
    /\ fn_call.fn = "execute"
    /\ fn_result = Pending
    /\ \E o \in execute(fn_call.server_name, fn_call.tool_name, fn_call.arguments) :
         fn_result' = IF o.raised THEN FnRaised(o.exc) ELSE FnReturned(o.output)
    /\ UNCHANGED <<fn_call, outside_fn>>

\* path arguments tried: inside the workspace, relative escapes, absolute paths
\* outside it, a sibling directory whose name starts with the root's name
RelPaths ==
    {<<".">>, <<"docs">>, <<"a.txt">>, <<"missing">>,
     <<"docs", "/", "..", "/", "a.txt">>,
     <<"..", "/", "etc">>, <<"..", "/", "..", "/", "etc">>,
     <<"docs", "/", "..", "/", "..", "/", "etc", "/", "passwd">>,
     <<"/", "etc">>, <<"/", "etc", "/", "passwd">>, <<"/">>,
     <<"..", "/", "ws", "-evil">>, <<"..", "/", "ws", "-evil", "/", "secret">>,
     <<"/", "ws", "-evil">>, <<"/", "ws", "-evil", "/", "secret">>}

FilesystemCalls ==
    [fn : {"filesystem"},
     tool_name : {ListDirectory, ReadFile, <<"remove">>},
     arguments : {<<>>} \cup [path : RelPaths \cup {<<>>}]]

\* MCPService._handle_filesystem_tool(tool_name, arguments)
CallFilesystemTool ==
    /\ fn_call.fn = "filesystem"
    /\ fn_result = Pending
    /\ fn_result' =
          LET handled == _handle_filesystem_tool(fn_call.tool_name, fn_call.arguments)
          IN  IF handled.raised
              THEN [state |-> "raised", exc |-> handled.exc,
                    accessed |-> handled.accessed]
              ELSE [state |-> "returned", value |-> handled.output,
                    accessed |-> handled.accessed]
    /\ UNCHANGED <<fn_call, outside_fn>>

\* environments and credential stores: sets of <<name, value>> entries with
\* one entry per name
DictHas(d, k) == \E e \in d : e[1] = k
DictGet(d, k) == (CHOOSE e \in d : e[1] = k)[2]
DictSet(d, k, v) == {e \in d : e[1] # k} \cup {<<k, v>>}

\* str.upper() on the server names used
Upper(name) == CASE name = "stub" -> "STUB" [] name = "remote" -> "REMOTE" [] OTHER -> name

\* lines 314-323; a resolved value of <<>> stands for None
_resolve_api_key(api_keys, srv) ==
    IF ~srv.requires_api_key
    THEN [raised |-> FALSE, resolved |-> <<>>]
    ELSE LET key_name == IF srv.auth_key_name # <<>>
                         THEN srv.auth_key_name
                         ELSE <<Upper(srv.name), "_API_KEY">>
         IN  IF ~DictHas(api_keys, key_name) \/ DictGet(api_keys, key_name) = ""
             THEN [raised |-> TRUE, resolved |-> <<>>]
             ELSE [raised |-> FALSE,
                   resolved |-> <<key_name, DictGet(api_keys, key_name)>>]

\* a variant that adds the credential to os.environ itself
BuildEnvInPlace(os_environ, api_keys, srv) ==
    LET r == _resolve_api_key(api_keys, srv)
        env == IF r.raised \/ r.resolved = <<>>
               THEN os_environ
               ELSE DictSet(os_environ, r.resolved[1], r.resolved[2])
    IN  [raised |-> r.raised, env |-> env, os_environ |-> env]

\* lines 325-338: the environment built for srv, and os.environ afterwards
_build_env(os_environ, api_keys, srv) ==
    LET env == os_environ
        r == _resolve_api_key(api_keys, srv)
    IN  [raised |-> r.raised,
         env |-> IF r.raised \/ r.resolved = <<>>
                 THEN env
                 ELSE DictSet(env, r.resolved[1], r.resolved[2]),
         os_environ |-> os_environ]

\* the process-transport servers launched one after the other
LaunchConfigs ==
    [name : {"stub", "remote"},
     requires_api_key : BOOLEAN,
     auth_key_name : {<<>>, <<"TOKEN">>}]

\* os.environ of the backend, without and with a variable named like a
\* credential
Environs ==
    {{<<(<<"PATH">>), "/bin">>},
     {<<(<<"PATH">>), "/bin">>, <<(<<"STUB", "_API_KEY">>), "inherited">>}}

\* MCPService.api_keys
ApiKeyStores ==
    {{<<(<<"STUB", "_API_KEY">>), "k-stub">>, <<(<<"TOKEN">>), "k-token">>},
     {<<(<<"STUB", "_API_KEY">>), "">>, <<(<<"REMOTE", "_API_KEY">>), "k-remote">>}}

MaxLaunches == 2

BuildEnvCalls ==
    [fn : {"build_env"},
     os_environ : Environs,
     api_keys : ApiKeyStores,
     servers : [1..MaxLaunches -> LaunchConfigs]]

\* the environments built so far and os.environ at this point
EnvsBuilt == IF fn_result = Pending THEN <<>> ELSE fn_result.envs
OsEnviron == IF fn_result = Pending THEN fn_call.os_environ ELSE fn_result.os_environ

\* MCPService._build_env(server) for the next server launched; a launch whose
\* credential is missing builds no environment
CallBuildEnv ==
    /\ fn_call.fn = "build_env"
    /\ Len(EnvsBuilt) < Len(fn_call.servers)
    /\ LET built == _build_env(OsEnviron, fn_call.api_keys,
                               fn_call.servers[Len(EnvsBuilt) + 1])
       IN  fn_result' = [state |-> "building",
                         envs |-> Append(EnvsBuilt,
                                         IF built.raised THEN {} ELSE built.env),
                         raised |-> IF fn_result = Pending
                                    THEN <<built.raised>>
                                    ELSE Append(fn_result.raised, built.raised),
                         os_environ |-> built.os_environ]
    /\ UNCHANGED <<fn_call, outside_fn>>

\* what the child writes to its output stream, line by line: JSON objects
\* (id 0 for an object without "id"), a line that is no JSON, a JSON value that
\* is no object, and the end of the stream; after the last line nothing more
\* arrives
MaxLines == 3
MaxId == 2
ParsedMessages == [kind : {"message"}, id : 0..MaxId, field : {"result", "method"}]
EndOfStream == [kind |-> "eof"]
InvalidLine == [kind |-> "invalid"]
NotAnObject == [kind |-> "not_object"]
OutputLines == ParsedMessages \cup {EndOfStream, InvalidLine, NotAnObject}

\* a variant that returns the first parsed message whatever its id
ReceiveFirstParsed(lines, target_id) ==
    IF lines = <<>> THEN FnRaised("TimeoutError")
    ELSE IF Head(lines).kind = "message" THEN FnReturned(Head(lines))
    ELSE FnRaised("ConnectionClosed")

\* lines 451-466
RECURSIVE _receive(_, _)
_receive(lines, target_id) ==
    IF lines = <<>>
    THEN FnRaised("TimeoutError")
    ELSE LET line == Head(lines)
         IN  CASE line.kind = "eof" -> FnRaised("ConnectionClosed")
               [] line.kind = "invalid" -> FnRaised("InvalidMessage")
               [] line.kind = "not_object" -> FnRaised("AttributeError")
               [] line.kind = "message" ->
                    IF line.id = target_id
                    THEN FnReturned(line)
                    ELSE _receive(Tail(lines), target_id)

ReceiveCalls == [fn : {"receive"}, target_id : 1..MaxId, lines : SeqsUpTo(OutputLines, MaxLines)]

\* _StdioSession._receive(target_id) on the lines the child writes
CallReceive ==
    /\ fn_call.fn = "receive"
    /\ fn_result = Pending
    /\ fn_result' = _receive(fn_call.lines, fn_call.target_id)
    /\ UNCHANGED <<fn_call, outside_fn>>

\* the events of an event-stream response, each the data: lines gathered up to
\* a blank line: JSON objects (id 0 for an object without "id") carrying a
\* result, an error or a method, and data that is no JSON
MaxEvents == 2
SseMessages == [kind : {"message"}, id : 0..MaxId, field : {"result", "error", "method"}]
SseEvents == SseMessages \cup {InvalidLine}

\* lines 645-699; terminated says whether a blank line follows the last event,
\* target_id 0 stands for None
RECURSIVE _consume_sse(_, _, _)
_consume_sse(events, terminated, target_id) ==
    IF events = <<>>
    THEN FnRaised("RuntimeError")
    ELSE LET message == Head(events)
         IN  IF Len(events) = 1 /\ ~terminated
             THEN IF message.kind = "message"
                  THEN FnReturned(message)
                  ELSE FnRaised("RuntimeError")
             ELSE IF message.kind # "message"
             THEN _consume_sse(Tail(events), terminated, target_id)
             ELSE IF \/ target_id = 0
                     \/ message.id = target_id
                     \/ message.field \in {"result", "error"}
             THEN FnReturned(message)
             ELSE _consume_sse(Tail(events), terminated, target_id)

ConsumeSseCalls ==
    [fn : {"consume_sse"},
     target_id : 0..MaxId,
     terminated : BOOLEAN,
     events : SeqsUpTo(SseEvents, MaxEvents)]

\* _StreamtableHTTPSession._consume_sse(response, target_id)
CallConsumeSse ==
    /\ fn_call.fn = "consume_sse"
    /\ fn_result = Pending
    /\ fn_result' = _consume_sse(fn_call.events, fn_call.terminated, fn_call.target_id)
    /\ UNCHANGED <<fn_call, outside_fn>>

\* a server's tool list split into pages: the page answered to cursor k (0 for
\* a request without cursor) holds `size` tools and the cursor `next`, 0 when it
\* supplies none; a cursor the server does not know is answered with an error
MaxListPages == 3
MaxPageSize == 2
PagedServers ==
    {srv \in [0..(MaxListPages - 1) -> [size : 0..MaxPageSize, next : 0..MaxListPages]] :
        \A k \in DOMAIN srv : srv[k].next = 0 \/ srv[k].next > k}
ToolsOfPage(srv, k) == [j \in 1..srv[k].size |-> <<k, j>>]
\* response.get("result", {}) of the tools/list request carrying the cursor
PageResult(srv, cursor) ==
    IF cursor \in DOMAIN srv
    THEN [tools |-> ToolsOfPage(srv, cursor), nextCursor |-> srv[cursor].next]
    ELSE [tools |-> <<>>, nextCursor |-> 0]

\* a variant that asks for the first page only
ListFirstPage(srv, cursor, tools, cursors) ==
    [tools |-> tools \o PageResult(srv, cursor).tools,
     cursors |-> Append(cursors, cursor)]

\* lines 125-138 (and 147-162): the loop of list_tools from the request that
\* carries `cursor`; the tools gathered and the cursors sent, in order
RECURSIVE _list_stdio_tools(_, _, _, _)
_list_stdio_tools(srv, cursor, tools, cursors) ==
    LET result == PageResult(srv, cursor)
        gathered == tools \o result.tools
        requested == Append(cursors, cursor)
    IN  IF result.nextCursor = 0
        THEN [tools |-> gathered, cursors |-> requested]
        ELSE _list_stdio_tools(srv, result.nextCursor, gathered, requested)

ListToolsCalls == [fn : {"list_tools"}, srv : PagedServers]

\* MCPService._list_stdio_tools(server) on an open session
CallListTools ==
    /\ fn_call.fn = "list_tools"
    /\ fn_result = Pending
    /\ fn_result' = FnReturned(_list_stdio_tools(fn_call.srv, 0, <<>>, <<>>))
    /\ UNCHANGED <<fn_call, outside_fn>>

\* the JSON-RPC responses to tools/call a server may send: one with a result
\* member, or one with an error object and no result
ToolCallResponses ==
    {[jsonrpc |-> "2.0", id |-> 1, result |-> r] : r \in RemoteResults}
    \cup {[jsonrpc |-> "2.0", id |-> 1,
           error |-> [code |-> -32602, message |-> <<"Unknown tool">>]]}

\* mcp.py 179 and 204: response.get("result", {})
ResultMember(response) ==
    IF "result" \in DOMAIN response THEN response.result ELSE <<>>

\* MCPService._call_stdio_tool and _call_streamtable_http_tool once
\* session.request has returned the response
_call_stdio_tool(response) == _format_tool_result(ResultMember(response))

CallToolCalls == [fn : {"call_tool"}, response : ToolCallResponses]

\* MCPService.execute on a stdio or streaming-HTTP server answering
\* fn_call.response
CallCallTool ==
    /\ fn_call.fn = "call_tool"
    /\ fn_result = Pending
    /\ fn_result' = FnReturned(_call_stdio_tool(fn_call.response))
    /\ UNCHANGED <<fn_call, outside_fn>>

\* the calls tried
FnCalls ==
    EncodeCalls \cup BuildCalls \cup ExecuteCalls \cup FilesystemCalls
        \cup BuildEnvCalls \cup ReceiveCalls \cup ConsumeSseCalls
        \cup ListToolsCalls \cup CallToolCalls

\* the turn that stays idle while MCPService is called on its own
IdleCfg == CHOOSE c \in PlainCfgs : TRUE

FnInit ==
    /\ cfg = IdleCfg
    /\ TurnInit
    /\ fn_call \in FnCalls
    /\ fn_result = Pending
    /\ StdioIdle
    /\ HttpIdle
    /\ ConcIdle

FnNext ==
    \/ CallCallTool
    \/ CallListTools
    \/ CallBuildEnv
    \/ CallReceive
    \/ CallConsumeSse
    \/ CallEncodeToolName
    \/ CallDecodeToolName
    \/ CallBuildToolDefinitions
    \/ CallExecute
    \/ CallFilesystemTool

FnSpec == FnInit /\ [][FnNext]_vars

-----------------------------------------------------------------------------
(* C13: for all (server, tool) pairs in which neither name contains the      *)
(* separator "__", decode_tool_name(_encode_tool_name(server, tool)) is      *)
(* (server, tool).                                                            *)

C13_RoundTrip ==
    (/\ fn_call.fn = "decode"
     /\ ~HasSeparator(fn_call.server_name)
     /\ ~HasSeparator(fn_call.tool_name))
    => fn_result = FnReturned(<<fn_call.server_name, fn_call.tool_name>>)

-----------------------------------------------------------------------------
(* C14: encoding a tool name fails (raises) if the server name or the tool   *)
(* name contains the separator "__"; no encoded name is produced for such a  *)
(* pair.                                                                      *)

C14_EncodeRejectsSeparator ==
    (/\ fn_call.fn = "encode"
     /\ fn_result # Pending
     /\ (HasSeparator(fn_call.server_name) \/ HasSeparator(fn_call.tool_name)))
    => fn_result.state = "raised"

-----------------------------------------------------------------------------
(* C15: for every server whose listing returns tools with non-empty names,  *)
(* build_tool_definitions returns one definition per listed tool, whose      *)
(* function name decodes (decode_tool_name) back to the tool's (server,      *)
(* tool) pair and whose lookup entry holds the same pair.                    *)

\* the listing of the server succeeds in the build call made
Lists(server_name) ==
    server_name \in ConfiguredServers /\ server_name \notin fn_call.failing

NamedTools(server_name) == SelectSeq(ServerTools(server_name), LAMBDA t : t # <<>>)

BuildReturned == fn_call.fn = "build" /\ fn_result.state = "returned"

C15_DefinitionsDecode ==
    BuildReturned =>
        LET built == fn_result.value
        IN  \A i \in 1..Len(fn_call.server_names) :
              LET s == fn_call.server_names[i]
              IN  (Lists(s) /\ NamedTools(s) = ServerTools(s)) =>
                     \A j \in 1..Len(ServerTools(s)) :
                        LET pair == [server_name |-> s,
                                     tool_name |-> ServerTools(s)[j]]
                        IN  \E k \in 1..Len(built.definitions) :
                              LET decoded == decode_tool_name(built.definitions[k])
                              IN  /\ decoded.ok
                                  /\ decoded.server_name = pair.server_name
                                  /\ decoded.tool_name = pair.tool_name
                                  /\ built.lookup[built.definitions[k]] = pair

-----------------------------------------------------------------------------
(* C16: in build_tool_definitions over several server names, a failure to    *)
(* list the tools of one server (unknown server, failing listing) makes that *)
(* server contribute zero definitions while the definitions and lookup       *)
(* entries of every other server are still returned; the build returns.      *)

C16_FailureIsolated ==
    (fn_call.fn = "build" /\ fn_result # Pending) =>
        /\ fn_result.state = "returned"
        /\ LET built == fn_result.value
               names == fn_call.server_names
           IN  /\ \A d \in DOMAIN built.lookup : Lists(built.lookup[d].server_name)
               /\ \A i \in 1..Len(names) :
                    Lists(names[i]) =>
                       \A j \in 1..Len(NamedTools(names[i])) :
                          LET f == _encode_tool_name(names[i], NamedTools(names[i])[j])
                          IN  /\ \E k \in 1..Len(built.definitions) :
                                    built.definitions[k] = f
                              /\ f \in DOMAIN built.lookup
                              /\ built.lookup[f] =
                                     [server_name |-> names[i],
                                      tool_name |-> NamedTools(names[i])[j]]
               /\ Len(built.definitions) =
                     Cardinality({ij \in (1..Len(names)) \X (1..3) :
                                    /\ Lists(names[ij[1]])
                                    /\ ij[2] <= Len(NamedTools(names[ij[1]]))})

C16_Witness ==
    /\ BuildReturned
    /\ Len(fn_call.server_names) = 2
    /\ ~Lists(fn_call.server_names[1])
    /\ Lists(fn_call.server_names[2])
    /\ fn_result.value.definitions # <<>>

-----------------------------------------------------------------------------
(* C17: execute normalises a tool-call result into one envelope: text is the *)
(* newline-joined text of the content blocks in their original order, a      *)
(* structured payload (structuredContent, data) is preserved when present,   *)
(* the original result is kept as raw, and isError is false when the         *)
(* server's result has no isError field; for the stub's say_hello called     *)
(* with the name Tester, isError is false and the text holds "Tester".      *)

ExecuteReturned == fn_call.fn = "execute" /\ fn_result.state = "returned"

\* the results the server called may have answered
Answers ==
    ToolCallResults(fn_call.server_name, fn_call.tool_name, fn_call.arguments)

Contains(text, token) == \E i \in 1..Len(text) : text[i] = token

\* the envelope keeps the result r apart from its text
Envelops(envelope, r) ==
    /\ "raw" \in DOMAIN envelope /\ envelope.raw = r
    /\ \A k \in {"structuredContent", "data"} :
         k \in DOMAIN r => (k \in DOMAIN envelope /\ envelope[k] = r[k])
    /\ "isError" \notin DOMAIN r => ~envelope.isError
    /\ "isError" \in DOMAIN r => envelope.isError = r.isError
    /\ envelope.content = r.content

EchoesTester ==
    (fn_call.server_name = Stub /\ fn_call.tool_name = SayHello
        /\ fn_call.arguments = [name |-> "Tester"])
    => (~fn_result.value.isError /\ Contains(fn_result.value.text, "Tester"))

\* as stated: the text is the texts of all blocks joined by newlines
C17_EnvelopeJoinsBlocks ==
    ExecuteReturned =>
        /\ \E r \in Answers :
             /\ Envelops(fn_result.value, r)
             /\ fn_result.value.text = JoinLines(TextParts(r.content))
        /\ EchoesTester

\* the text is made of the non-empty block texts, joined by newlines in their
\* order, with the whitespace at both ends removed
C17_EnvelopeJoinsNonEmptyBlocksTrimmed ==
    ExecuteReturned =>
        /\ \E r \in Answers :
             /\ Envelops(fn_result.value, r)
             /\ fn_result.value.text =
                    Strip(JoinLines(SelectNonEmpty(TextParts(r.content))))
        /\ EchoesTester

C17_Witness ==
    /\ ExecuteReturned
    /\ "structuredContent" \in DOMAIN fn_result.value
    /\ "isError" \notin DOMAIN fn_result.value.raw
    /\ Len(fn_result.value.content) > 1
    /\ fn_result.value.text # <<>>

-----------------------------------------------------------------------------
(* C18: every ToolResult produced by execute, or by the orchestrator's       *)
(* wrapper around a failed tool call, satisfies: isError = true implies that *)
(* text is a non-empty failure description.                                   *)

C18_ErrorHasText ==
    \A i \in 1..Len(exec_log) :
        (exec_log[i].phase = "end" /\ exec_log[i].output.isError)
            => exec_log[i].output.text # <<>>

-----------------------------------------------------------------------------
(* C19: list_directory and read_file reject every path argument whose        *)
(* resolved path lies outside the workspace root - relative escapes,         *)
(* absolute paths outside the root, sibling directories whose name starts    *)
(* with the root's name - before any directory listing or file read.         *)

\* the path the call resolves, as components
TargetOfCall ==
    ResolveTarget(IF "path" \in DOMAIN fn_call.arguments THEN fn_call.arguments.path
                  ELSE <<".">>)

\* the resolved path is the workspace root or lies below it
InsideWorkspace(target) ==
    LET root == Normalize(SplitPath(workspace_root), <<>>)
    IN  Len(root) <= Len(target) /\ SubSeq(target, 1, Len(root)) = root


ResolvesPath ==
    /\ fn_call.fn = "filesystem"
    /\ fn_call.tool_name \in {ListDirectory, ReadFile}
    /\ fn_call.tool_name = ReadFile =>
          ("path" \in DOMAIN fn_call.arguments /\ fn_call.arguments.path # <<>>)

C19_EscapesRejected ==
    (ResolvesPath /\ fn_result # Pending /\ ~InsideWorkspace(TargetOfCall))
    => /\ fn_result.state = "raised"
       /\ fn_result.exc = PathEscapes
       /\ fn_result.accessed = <<>>

-----------------------------------------------------------------------------
(* One list_tools or execute on a process-transport server:                  *)
(* _list_stdio_tools / _call_stdio_tool entering, using and leaving a        *)
(* _StdioSession                                                              *)

\* the most pages a server splits its tool list into
MaxPages == 2

\* the operations and the ways their server may behave: whether the launch
\* succeeds, how initialize, the operation's request and shutdown are answered,
\* and what makes the child exit
StdioServers ==
    [operation : {"list_tools", "execute"},
     launch : {"ok", "unknown_server", "no_credential", "no_command", "spawn_fails"},
     initialize : {"result", "error", "timeout", "closed", "invalid"},
     body : {"result", "error", "timeout", "closed"},
     shutdown : {"result", "timeout", "closed"},
     exits : {"on_close", "on_terminate", "on_kill"},
     pages : 1..MaxPages]

Request(method, id) == [method |-> method, id |-> id]
\* a notification carries no id
Notification(method) == [method |-> method, id |-> 0]

BodyMethod(operation) == IF operation = "list_tools" THEN "tools/list" ELSE "tools/call"

\* lines 127-135/149-157: tools/list is repeated while the result holds a
\* nextCursor; tools/call is sent once
PagesRequested == Len(SelectSeq(sent, LAMBDA m : m.method = "tools/list"))
MorePages == server.operation = "list_tools" /\ PagesRequested < server.pages

\* a variant that looks the server and its credential up only once the session
\* is open
RaisesAfterLookupSkipped(launch) == launch \notin {"ok", "unknown_server", "no_credential"}

\* lines 44/107 (_get_server), 124/170 (_build_env), 141/191
\* (_resolve_api_key), 365-366, 374, 488-491: what raises before a process is
\* spawned or a client created
RaisesBeforeSession(launch) == launch # "ok"

\* lines 37-41, 124/170, 314-338, 364-366, 374: the server is unknown, the
\* credential or the command is missing, or the process cannot be spawned
StdioRejected ==
    /\ session_pc = "idle"
    /\ RaisesBeforeSession(server.launch)
    /\ outcome' = "error"
    /\ session_pc' = "returned"
    /\ UNCHANGED <<server, _process, stdin_closed, sent, _next_id, closed, signals>>
    /\ UNCHANGED outside_stdio

\* lines 364-383, 392-402, 413-421: the process is spawned and the initialize
\* request written
StdioLaunch ==
    /\ session_pc = "idle"
    /\ ~RaisesBeforeSession(server.launch)
    /\ _process' = "running"
    /\ _next_id' = _next_id + 1
    /\ sent' = Append(sent, Request("initialize", _next_id'))
    /\ session_pc' = "initializing"
    /\ UNCHANGED <<server, stdin_closed, outcome, closed, signals>>
    /\ UNCHANGED outside_stdio

\* a variant that goes on to the operation's request without the notification
InitializeSkipsNotification ==
    /\ session_pc = "initializing"
    /\ server.initialize = "result"
    /\ _next_id' = _next_id + 1
    /\ sent' = Append(sent, Request(BodyMethod(server.operation), _next_id'))
    /\ session_pc' = "body"
    /\ UNCHANGED <<server, _process, stdin_closed, outcome, closed, signals>>
    /\ UNCHANGED outside_stdio

\* a variant that opens the session whatever the initialize exchange ends in
InitializeErrorIgnored ==
    /\ session_pc = "initializing"
    /\ server.initialize # "result"
    /\ _next_id' = _next_id + 1
    /\ sent' = sent \o <<Notification("notifications/initialized"),
                         Request(BodyMethod(server.operation), _next_id')>>
    /\ session_pc' = "body"
    /\ UNCHANGED <<server, _process, stdin_closed, outcome, closed, signals>>
    /\ UNCHANGED outside_stdio

\* lines 422-424, 384, 129/171: the initialize response holds a result; the
\* notification and the operation's request are written
InitializeSucceeds ==
    /\ session_pc = "initializing"
    /\ server.initialize = "result"
    /\ _next_id' = _next_id + 1
    /\ sent' = sent \o <<Notification("notifications/initialized"),
                         Request(BodyMethod(server.operation), _next_id')>>
    /\ session_pc' = "body"
    /\ UNCHANGED <<server, _process, stdin_closed, outcome, closed, signals>>
    /\ UNCHANGED outside_stdio

\* lines 383, 422-423, 455-462: the initialize response holds an error, does
\* not arrive in time, is no JSON, or the stream ends; the exception leaves
\* __aenter__, so the body and __aexit__ of the async with are not run
InitializeFails ==
    /\ session_pc = "initializing"
    /\ server.initialize # "result"
    /\ _process' = IF server.initialize = "closed" THEN "exited" ELSE _process
    /\ outcome' = "error"
    /\ session_pc' = "returned"
    /\ UNCHANGED <<server, stdin_closed, sent, _next_id, closed, signals>>
    /\ UNCHANGED outside_stdio

\* lines 127-135: a page of tools arrives with a nextCursor and the next
\* tools/list request is written
NextPage ==
    /\ session_pc = "body"
    /\ MorePages
    /\ _next_id' = _next_id + 1
    /\ sent' = Append(sent, Request("tools/list", _next_id'))
    /\ UNCHANGED <<session_pc, server, _process, stdin_closed, outcome, closed, signals>>
    /\ UNCHANGED outside_stdio

\* lines 129-138/171-183, 386-387, 426-428: the operation's last request is
\* answered or fails; __aexit__ starts and writes the shutdown request
BodyAnswered ==
    /\ session_pc = "body"
    /\ ~MorePages
    /\ outcome' = IF server.body \in {"result", "error"} THEN "result" ELSE "error"
    /\ _process' = IF server.body = "closed" THEN "exited" ELSE _process
    /\ _next_id' = _next_id + 1
    /\ sent' = Append(sent, Request("shutdown", _next_id'))
    /\ session_pc' = "shutting_down"
    /\ UNCHANGED <<server, stdin_closed, closed, signals>>
    /\ UNCHANGED outside_stdio

\* a variant whose failing shutdown request leaves __aexit__ as an exception
ShutdownFailureRaises ==
    /\ session_pc = "shutting_down"
    /\ _process' = IF server.shutdown = "closed" THEN "exited" ELSE _process
    /\ IF server.shutdown = "result"
       THEN /\ stdin_closed' = TRUE
            /\ session_pc' = "waiting"
            /\ UNCHANGED outcome
       ELSE /\ outcome' = "close_error"
            /\ session_pc' = "returned"
            /\ UNCHANGED stdin_closed
    /\ UNCHANGED <<server, sent, _next_id, closed, signals>>
    /\ UNCHANGED outside_stdio

\* lines 426-430, 388-389: whatever the shutdown request ends in is ignored and
\* the child's input stream is closed
ShutdownAnswered ==
    /\ session_pc = "shutting_down"
    /\ _process' = IF server.shutdown = "closed" THEN "exited" ELSE _process
    /\ stdin_closed' = TRUE
    /\ session_pc' = "waiting"
    /\ UNCHANGED <<server, sent, _next_id, outcome, closed, signals>>
    /\ UNCHANGED outside_stdio

\* a variant that sends the terminate signal without waiting first
FirstWaitSkipped ==
    /\ session_pc = "waiting"
    /\ signals' = Append(signals, "terminate")
    /\ session_pc' = "terminating"
    /\ UNCHANGED <<_process, closed>>
    /\ UNCHANGED <<server, stdin_closed, sent, _next_id, outcome>>
    /\ UNCHANGED outside_stdio

\* lines 435-438: the first wait of 2 seconds; terminate() when it times out
FirstWait ==
    /\ session_pc = "waiting"
    /\ IF _process = "exited" \/ server.exits = "on_close"
       THEN /\ _process' = "exited"
            /\ session_pc' = "returned"
            /\ closed' = TRUE
            /\ UNCHANGED signals
       ELSE /\ signals' = Append(signals, "terminate")
            /\ session_pc' = "terminating"
            /\ UNCHANGED <<_process, closed>>
    /\ UNCHANGED <<server, stdin_closed, sent, _next_id, outcome>>
    /\ UNCHANGED outside_stdio

\* lines 439-442: the second wait of 2 seconds; kill() when it times out
SecondWait ==
    /\ session_pc = "terminating"
    /\ IF server.exits = "on_terminate"
       THEN /\ _process' = "terminated"
            /\ UNCHANGED signals
       ELSE /\ signals' = Append(signals, "kill")
            /\ _process' = "killed"
    /\ session_pc' = "returned"
    /\ closed' = TRUE
    /\ UNCHANGED <<server, stdin_closed, sent, _next_id, outcome>>
    /\ UNCHANGED outside_stdio

StdioInit ==
    /\ cfg = IdleCfg
    /\ TurnInit
    /\ FnIdle
    /\ session_pc = "idle"
    /\ server \in StdioServers
    /\ _process = "none"
    /\ stdin_closed = FALSE
    /\ sent = <<>>
    /\ _next_id = 0
    /\ outcome = "pending"
    /\ closed = FALSE
    /\ signals = <<>>
    /\ HttpIdle
    /\ ConcIdle

StdioNext ==
    \/ StdioRejected
    \/ StdioLaunch
    \/ InitializeSucceeds
    \/ InitializeFails
    \/ NextPage
    \/ BodyAnswered
    \/ ShutdownAnswered
    \/ FirstWait
    \/ SecondWait

StdioSpec == StdioInit /\ [][StdioNext]_vars

-----------------------------------------------------------------------------
(* C20: for every list_tools or execute on a process-transport server that   *)
(* spawned a child process, by the time the operation returns - with a       *)
(* result or an error, including a failed, timed-out or rejected initialize  *)
(* handshake - the session's close has run and the child has exited or has   *)
(* been terminated or killed.                                                 *)

C20_NoChildOutlivesOperation ==
    (session_pc = "returned" /\ _process # "none")
    => (closed /\ _process \in {"exited", "terminated", "killed"})

-----------------------------------------------------------------------------
(* One list_tools or execute on a streaming-HTTP server:                     *)
(* _list_streamtable_http_tools / _call_streamtable_http_tool entering,      *)
(* using and leaving a _StreamtableHTTPSession                                *)

\* the operations and the ways their server may behave: whether the session
\* can be opened, how initialize, the notification, the operation's request,
\* shutdown and the termination call are answered, and the session header of
\* the initialize response and of the later responses (<<>> when absent)
HttpServers ==
    [operation : {"list_tools", "execute"},
     launch : {"ok", "unknown_server", "no_credential", "no_base_url"},
     initialize : {"result", "error", "failure"},
     notify : {"accepted", "rejected"},
     body : {"result", "error", "failure"},
     shutdown : {"result", "failure"},
     delete : {"ok", "failure"},
     init_token : {<<>>, <<"A">>},
     later_token : {<<>>, <<"B">>},
     pages : 1..MaxPages]

\* a message posted to the endpoint with the Mcp-Session-Id header it carries;
\* id 0 for a message without id
HttpMessage(method, id, session) == [method |-> method, id |-> id, session |-> session]

\* a variant that keeps the session header of the latest response
CaptureLatest(current, header) == IF header # <<>> THEN header ELSE current

\* lines 709-714
_capture_session_id(current, header) == IF current # <<>> THEN current ELSE header

\* the header of a response is read only when the exchange did not fail
HeaderOf(answer, token) == IF answer = "failure" THEN <<>> ELSE token

\* lines 37-41, 141/191, 314-323, 488-491: the server is unknown, the
\* credential is not configured or the base_url is missing
HttpRejected ==
    /\ session_pc = "h_idle"
    /\ RaisesBeforeSession(server.launch)
    /\ outcome' = "error"
    /\ session_pc' = "returned"
    /\ UNCHANGED <<server, sent, _next_id, closed, _client, _session_id>>
    /\ UNCHANGED outside_http

\* lines 487-495, 526-540: the client is created and the initialize request
\* posted without session header
HttpOpen ==
    /\ session_pc = "h_idle"
    /\ ~RaisesBeforeSession(server.launch)
    /\ _client' = "open"
    /\ _next_id' = _next_id + 1
    /\ sent' = Append(sent, HttpMessage("initialize", _next_id', <<>>))
    /\ session_pc' = "h_initializing"
    /\ UNCHANGED <<server, outcome, closed, _session_id>>
    /\ UNCHANGED outside_http

\* lines 598-601, 541-554, 517-524: the initialize response holds a result;
\* the notification is posted
HttpInitializeSucceeds ==
    /\ session_pc = "h_initializing"
    /\ server.initialize = "result"
    /\ _session_id' = _capture_session_id(_session_id, server.init_token)
    /\ sent' = Append(sent, HttpMessage("notifications/initialized", 0, _session_id'))
    /\ session_pc' = "h_notifying"
    /\ UNCHANGED <<server, _next_id, outcome, closed, _client>>
    /\ UNCHANGED outside_http

\* lines 495, 541-548, 598-600: the initialize exchange fails or its response
\* holds an error; the exception leaves __aenter__, so __aexit__ is not run
HttpInitializeFails ==
    /\ session_pc = "h_initializing"
    /\ server.initialize # "result"
    /\ _session_id' = _capture_session_id(_session_id,
                                          HeaderOf(server.initialize, server.init_token))
    /\ outcome' = "error"
    /\ session_pc' = "returned"
    /\ UNCHANGED <<server, sent, _next_id, closed, _client>>
    /\ UNCHANGED outside_http

\* a variant whose notification takes a request id
HttpNotifyConsumesId ==
    /\ session_pc = "h_notifying"
    /\ server.notify = "accepted"
    /\ _session_id' = _capture_session_id(_session_id, server.later_token)
    /\ _next_id' = _next_id + 2
    /\ sent' = Append(sent, HttpMessage(BodyMethod(server.operation), _next_id',
                                        _session_id'))
    /\ session_pc' = "h_body"
    /\ UNCHANGED <<server, outcome, closed, _client>>
    /\ UNCHANGED outside_http

\* lines 602-614, 496, 151/197, 506-515: the notification is acknowledged with
\* 202 or 204; the operation's request is posted
HttpNotifyAccepted ==
    /\ session_pc = "h_notifying"
    /\ server.notify = "accepted"
    /\ _session_id' = _capture_session_id(_session_id, server.later_token)
    /\ _next_id' = _next_id + 1
    /\ sent' = Append(sent, HttpMessage(BodyMethod(server.operation), _next_id',
                                        _session_id'))
    /\ session_pc' = "h_body"
    /\ UNCHANGED <<server, outcome, closed, _client>>
    /\ UNCHANGED outside_http

\* lines 607-613, 554, 495: the notification is answered with another status;
\* the exception leaves __aenter__
HttpNotifyRejected ==
    /\ session_pc = "h_notifying"
    /\ server.notify = "rejected"
    /\ _session_id' = _capture_session_id(_session_id, server.later_token)
    /\ outcome' = "error"
    /\ session_pc' = "returned"
    /\ UNCHANGED <<server, sent, _next_id, closed, _client>>
    /\ UNCHANGED outside_http

\* lines 149-157, 598-601: a page of tools arrives with a nextCursor and the
\* next tools/list request is posted
HttpNextPage ==
    /\ session_pc = "h_body"
    /\ MorePages
    /\ _session_id' = _capture_session_id(_session_id, server.later_token)
    /\ _next_id' = _next_id + 1
    /\ sent' = Append(sent, HttpMessage("tools/list", _next_id', _session_id'))
    /\ UNCHANGED <<session_pc, server, outcome, closed, _client>>
    /\ UNCHANGED outside_http

\* lines 151-162/197-209, 498-500, 556-567: the operation's last request is
\* answered or fails; __aexit__ starts and posts the shutdown request
HttpBodyAnswered ==
    /\ session_pc = "h_body"
    /\ ~MorePages
    /\ outcome' = IF server.body = "failure" THEN "error" ELSE "result"
    /\ _session_id' = _capture_session_id(_session_id,
                                          HeaderOf(server.body, server.later_token))
    /\ _next_id' = _next_id + 1
    /\ sent' = Append(sent, HttpMessage("shutdown", _next_id', _session_id'))
    /\ session_pc' = "h_shutting_down"
    /\ UNCHANGED <<server, closed, _client>>
    /\ UNCHANGED outside_http

\* a variant that sends the termination call with or without a token and
\* leaves the client open when the shutdown request failed
HttpShutdownUnguarded ==
    /\ session_pc = "h_shutting_down"
    /\ _session_id' = _capture_session_id(_session_id,
                                          HeaderOf(server.shutdown, server.later_token))
    /\ IF server.shutdown = "failure"
       THEN /\ session_pc' = "returned"
            /\ UNCHANGED sent
       ELSE /\ sent' = Append(sent, HttpMessage("DELETE", 0, _session_id'))
            /\ session_pc' = "h_deleting"
    /\ UNCHANGED <<server, _next_id, outcome, closed, _client>>
    /\ UNCHANGED outside_http

\* lines 568-573, 501-504: whatever the shutdown request ends in is ignored;
\* with a session token the termination call is sent, without one the client
\* is closed
HttpShutdownAnswered ==
    /\ session_pc = "h_shutting_down"
    /\ _session_id' = _capture_session_id(_session_id,
                                          HeaderOf(server.shutdown, server.later_token))
    /\ IF _session_id' # <<>>
       THEN /\ sent' = Append(sent, HttpMessage("DELETE", 0, _session_id'))
            /\ session_pc' = "h_deleting"
            /\ UNCHANGED <<closed, _client>>
       ELSE /\ _client' = "closed"
            /\ closed' = TRUE
            /\ session_pc' = "returned"
            /\ UNCHANGED sent
    /\ UNCHANGED <<server, _next_id, outcome>>
    /\ UNCHANGED outside_http

\* lines 573-579, 501-504: whatever the termination call ends in is ignored and
\* the client is closed
HttpDeleteAnswered ==
    /\ session_pc = "h_deleting"
    /\ _client' = "closed"
    /\ closed' = TRUE
    /\ session_pc' = "returned"
    /\ UNCHANGED <<server, sent, _next_id, outcome, _session_id>>
    /\ UNCHANGED outside_http

HttpInit ==
    /\ cfg = IdleCfg
    /\ TurnInit
    /\ FnIdle
    /\ session_pc = "h_idle"
    /\ server \in HttpServers
    /\ _process = "none"
    /\ stdin_closed = FALSE
    /\ sent = <<>>
    /\ _next_id = 0
    /\ outcome = "pending"
    /\ closed = FALSE
    /\ signals = <<>>
    /\ HttpIdle
    /\ ConcIdle

HttpNext ==
    \/ HttpRejected
    \/ HttpOpen
    \/ HttpInitializeSucceeds
    \/ HttpInitializeFails
    \/ HttpNotifyAccepted
    \/ HttpNotifyRejected
    \/ HttpNextPage
    \/ HttpBodyAnswered
    \/ HttpShutdownAnswered
    \/ HttpDeleteAnswered

HttpSpec == HttpInit /\ [][HttpNext]_vars

\* one operation on a server of either transport
TransportInit == StdioInit \/ HttpInit

TransportNext ==
    \/ StdioNext
    \/ HttpNext

TransportSpec == TransportInit /\ [][TransportNext]_vars

-----------------------------------------------------------------------------
(* C21: for every list_tools or execute on a streaming-HTTP server, by the   *)
(* time the operation returns - success or failure, including a failure of   *)
(* the initialize request or of the initialized notification - the session   *)
(* has been closed and its HTTP client released.                              *)

C21_NoClientOutlivesOperation ==
    (session_pc = "returned" /\ _client # "none") => (closed /\ _client = "closed")

-----------------------------------------------------------------------------
(* C22: an operation naming an unknown server, or a server whose required    *)
(* credential is not configured, fails without spawning any process and      *)
(* without sending any HTTP request.                                          *)

C22_RejectedWithoutActivity ==
    server.launch \in {"unknown_server", "no_credential"} =>
        /\ _process = "none"
        /\ _client = "none"
        /\ sent = <<>>
        /\ session_pc = "returned" => outcome = "error"

C22_Witness ==
    /\ session_pc = "returned"
    /\ server.launch \in {"unknown_server", "no_credential"}
    /\ outcome = "error"
    /\ sent = <<>>

-----------------------------------------------------------------------------
(* Observations on the messages of a transport session *)

IsRequest(m) == m.method \in {"initialize", "tools/list", "tools/call", "shutdown"}
IsInitialized(m) == m.method = "notifications/initialized"
IsToolRequest(m) == m.method \in {"tools/list", "tools/call"}
OverHttp == server \in HttpServers
\* __aenter__ has returned the session: initialize was answered with a result
\* and, over HTTP, the notification was acknowledged
HandshakeCompleted ==
    /\ server.initialize = "result"
    /\ OverHttp => (server.notify = "accepted" /\ session_pc # "h_notifying")

-----------------------------------------------------------------------------
(* C25: in every transport session (process and streaming HTTP) the first    *)
(* message sent is the initialize request, the initialized notification is   *)
(* sent after a successful initialize response and before any further        *)
(* request (tools/list, tools/call, shutdown), and no tools/list or          *)
(* tools/call is sent on a session whose handshake has not completed.         *)

C25_HandshakeFirst ==
    /\ sent # <<>> => sent[1].method = "initialize"
    /\ \A i \in DOMAIN sent :
        /\ sent[i].method = "initialize" => i = 1
        /\ IsInitialized(sent[i]) => (i = 2 /\ server.initialize = "result")
        /\ i > 1 => IsInitialized(sent[2])
        /\ IsToolRequest(sent[i]) => HandshakeCompleted

C25_Witness ==
    /\ OverHttp
    /\ Len(sent) >= 4
    /\ IsInitialized(sent[2])
    /\ IsToolRequest(sent[3])
    /\ sent[Len(sent)].method = "shutdown"

-----------------------------------------------------------------------------
(* C26: when the response to initialize contains an error object, opening    *)
(* the session fails, and neither the initialized notification nor any       *)
(* tools/list or tools/call request is sent on that session.                  *)

C26_InitializeErrorStopsSession ==
    server.initialize = "error" =>
        /\ \A i \in DOMAIN sent : ~IsInitialized(sent[i]) /\ ~IsToolRequest(sent[i])
        /\ session_pc \in {"idle", "h_idle", "initializing", "h_initializing", "returned"}
        /\ session_pc = "returned" => outcome = "error"

C26_Witness ==
    /\ server.initialize = "error"
    /\ session_pc = "returned"
    /\ Len(sent) = 1
    /\ sent[1].method = "initialize"
    /\ outcome = "error"

-----------------------------------------------------------------------------
(* C27: within one transport session the n-th request, the shutdown request  *)
(* sent on close included, carries id n, so ids start at 1 with initialize,  *)
(* strictly increase and are unique; notifications carry no id and do not    *)
(* consume one.                                                               *)

Requests == SelectSeq(sent, IsRequest)

C27_RequestIdsCount ==
    /\ \A n \in DOMAIN Requests : Requests[n].id = n
    /\ \A i \in DOMAIN sent : IsInitialized(sent[i]) => sent[i].id = 0
    /\ _next_id = Len(Requests)

C27_Witness ==
    /\ Len(Requests) = 4
    /\ Requests[1].method = "initialize"
    /\ Requests[3].method = "tools/list"
    /\ Requests[4].method = "shutdown"
    /\ \E i \in DOMAIN sent : IsInitialized(sent[i])

-----------------------------------------------------------------------------
(* C30: on a streaming-HTTP session the initialize request carries no session *)
(* token; the token of the first response that has a session header is kept  *)
(* and attached to every later request, notification and termination call;   *)
(* a token of a later response never replaces it.                             *)

C30_SessionTokenKept ==
    /\ \A i \in DOMAIN sent : sent[i].method = "initialize" => sent[i].session = <<>>
    /\ \A i \in DOMAIN sent :
          (i > 1 /\ server.init_token # <<>>) => sent[i].session = server.init_token
    /\ \A i, j \in DOMAIN sent :
          (i < j /\ sent[i].session # <<>>) => sent[j].session = sent[i].session
    /\ \A i \in DOMAIN sent : sent[i].method = "DELETE" => sent[i].session # <<>>
    /\ \A i \in DOMAIN sent :
          (i > 2 /\ server.init_token = <<>>) => sent[i].session = server.later_token
    /\ \A i \in DOMAIN sent : sent[i].session \in {<<>>, _session_id}
    /\ (session_pc \in {"h_notifying", "h_body", "h_shutting_down", "h_deleting"}
          /\ server.init_token # <<>>) => _session_id = server.init_token

C30_Witness ==
    /\ server.init_token # <<>>
    /\ server.later_token # <<>>
    /\ \E i \in DOMAIN sent : sent[i].method = "DELETE" /\ sent[i].session = server.init_token
    /\ \E i \in DOMAIN sent : IsToolRequest(sent[i]) /\ sent[i].session = server.init_token
    /\ sent[1].session = <<>>

-----------------------------------------------------------------------------
(* C24: the environment used to launch a process session is a private copy   *)
(* per invocation: injecting a server's credential for one launch leaves the *)
(* backend's own process environment unchanged, and the credential is not    *)
(* present in the environment built for a later launch of a server that does *)
(* not require it.                                                            *)

C24_EnvironmentIsPrivateCopy ==
    (fn_call.fn = "build_env" /\ fn_result # Pending) =>
        /\ fn_result.os_environ = fn_call.os_environ
        /\ \A i \in DOMAIN fn_result.envs :
              LET srv == fn_call.servers[i]
                  r == _resolve_api_key(fn_call.api_keys, srv)
              IN  ~fn_result.raised[i] =>
                    /\ ~srv.requires_api_key => fn_result.envs[i] = fn_call.os_environ
                    /\ srv.requires_api_key =>
                          /\ DictGet(fn_result.envs[i], r.resolved[1]) = r.resolved[2]
                          /\ \A e \in fn_result.envs[i] :
                                e[1] # r.resolved[1] => e \in fn_call.os_environ

C24_Witness ==
    /\ fn_call.fn = "build_env"
    /\ fn_result # Pending
    /\ Len(fn_result.envs) = 2
    /\ fn_call.servers[1].requires_api_key
    /\ ~fn_result.raised[1]
    /\ ~fn_call.servers[2].requires_api_key
    /\ fn_result.envs[1] # fn_call.os_environ
    /\ fn_result.envs[2] = fn_call.os_environ
    /\ ~DictHas(fn_result.envs[2], <<"TOKEN">>)

-----------------------------------------------------------------------------
(* C28: on a process session request() returns only a message whose id       *)
(* equals the id of the request; every parsed message with a different or    *)
(* missing id that arrives first is discarded, in any number and order.      *)

Received == fn_call.fn = "receive" /\ fn_result # Pending
Discarded(line) == line.kind = "message" /\ line.id # fn_call.target_id
\* the first line that is not discarded, 0 when there is none
FirstKept ==
    IF \A k \in DOMAIN fn_call.lines : Discarded(fn_call.lines[k])
    THEN 0
    ELSE CHOOSE k \in DOMAIN fn_call.lines :
            /\ ~Discarded(fn_call.lines[k])
            /\ \A j \in 1..(k - 1) : Discarded(fn_call.lines[j])
ReturnsOnlyMatch ==
    fn_result.state = "returned" =>
        /\ FirstKept # 0
        /\ fn_result.value = fn_call.lines[FirstKept]
        /\ fn_result.value.id = fn_call.target_id
EndsInTimeout == fn_result = FnRaised("TimeoutError") /\ FirstKept = 0
EndsInClosed ==
    /\ fn_result = FnRaised("ConnectionClosed")
    /\ FirstKept # 0
    /\ fn_call.lines[FirstKept] = EndOfStream
EndsInMatch ==
    /\ fn_result.state = "returned"
    /\ FirstKept # 0
    /\ fn_call.lines[FirstKept].kind = "message"
EndsInMalformed ==
    /\ fn_result.state = "raised"
    /\ fn_result.exc \in {"InvalidMessage", "AttributeError"}
    /\ FirstKept # 0
    /\ fn_call.lines[FirstKept] \in {InvalidLine, NotAnObject}

\* C28 with three endings only: the call ends in exactly one of - the matching
\* response, a timeout failure when no line arrives within the per-message
\* timeout, or a connection-closed failure when the stream ends before a match
C28_ThreeEndings ==
    Received => (ReturnsOnlyMatch /\ (EndsInMatch \/ EndsInTimeout \/ EndsInClosed))

\* C28 as the code has it: a fourth ending is a failure on a line that is not
\* a JSON object, which is not discarded
C28_FourEndings ==
    Received =>
        /\ ReturnsOnlyMatch
        /\ EndsInMatch \/ EndsInTimeout \/ EndsInClosed \/ EndsInMalformed
        /\ ~(EndsInMatch /\ EndsInTimeout) /\ ~(EndsInClosed /\ EndsInMalformed)

C28_Witness ==
    /\ Received
    /\ Len(fn_call.lines) = 3
    /\ Discarded(fn_call.lines[1])
    /\ fn_call.lines[1].id = 0
    /\ Discarded(fn_call.lines[2])
    /\ fn_call.lines[2].id # 0
    /\ fn_call.lines[2].field = "result"
    /\ fn_result = FnReturned(fn_call.lines[3])

-----------------------------------------------------------------------------
(* C29: on a streaming-HTTP session whose response is an event stream, a     *)
(* request with id n returns the first event whose id equals n; an event     *)
(* with a different id is not returned as the response to request n, even    *)
(* when it carries a result or error field.                                   *)

C29_ReturnsFirstEventWithId ==
    (/\ fn_call.fn = "consume_sse"
     /\ fn_call.target_id # 0
     /\ fn_result # Pending
     /\ fn_result.state = "returned") =>
        \E k \in DOMAIN fn_call.events :
            /\ fn_result.value = fn_call.events[k]
            /\ fn_call.events[k].id = fn_call.target_id
            /\ \A j \in 1..(k - 1) :
                  fn_call.events[j].kind = "message" => fn_call.events[j].id # fn_call.target_id

-----------------------------------------------------------------------------
(* Turns of different conversations at the same time: post_message runs      *)
(* _process_user_turn as one coroutine per request, the coroutines take       *)
(* turns at every await; each opens its own transport session per tool call   *)
(* and all share the messages table                                            *)

Conversations == {"c1", "c2"}

\* the most rounds of tool calls a conversation's model asks for
MaxConcRounds == 2

\* what one request's turn is given: the session it belongs to, the user's
\* content, the number of responses of the model that request a tool before
\* its final content, and the text its tool returns
Scripts ==
    [session : Conversations,
     user : {<<"Hello">>, <<"Again">>},
     rounds : 0..MaxConcRounds,
     final : {<<"Done">>, <<>>},
     result : {<<"x">>}]

\* the locals of a coroutine before it has run; awaits counts the awaits passed
InitialTurn(script) ==
    [script |-> script, pc |-> "idle", awaits |-> 0, llm_messages |-> <<>>,
     tool_iterations |-> 0, responded |-> 0, assistant_text |-> <<>>,
     _next_id |-> 0, sent |-> <<>>, reply |-> <<>>]

\* a variant whose history query has no filter on the session
HistoryOfAll(c, table) == table

\* lines 346-353: select(Message).where(Message.session_id == chat_session.id)
History(c, table) == SelectSeq(table, LAMBDA r : r.session_id = c)

\* lines 285-292: the user's message is added and committed
Started(c, turn, table) ==
    [turn |-> [turn EXCEPT !.pc = "history", !.awaits = @ + 1],
     rows |-> Append(table, [session_id |-> turn.script.session, role |-> "user",
                             content |-> turn.script.user])]

\* lines 346-377, 390-391: the session's rows become the message list
HistoryLoaded(c, turn, table) ==
    LET history == History(turn.script.session, table)
    IN  [turn |-> [turn EXCEPT
                     !.llm_messages = BuildContext(history, <<>>, <<>>,
                                                   turn.script.user),
                     !.tool_iterations = 0,
                     !.pc = "chat",
                     !.awaits = @ + 1],
         rows |-> table]

\* lines 396-467, 556-557, and mcp.py 170, 360-362, 364-383, 392-402: chat()
\* returns; on a tool request the round is counted and a new session opened
\* for the call, whose first request is initialize
ModelResponded(c, turn, table) ==
    LET wants_tool == turn.responded < turn.script.rounds
        counted == turn.tool_iterations + 1
    IN  [turn |->
           IF ~wants_tool
           THEN [turn EXCEPT !.responded = @ + 1,
                             !.assistant_text = FinalText(turn.script.final, @),
                             !.pc = "finish",
                             !.awaits = @ + 1]
           ELSE IF LoopGuardTrips(counted)
           THEN [turn EXCEPT !.responded = @ + 1,
                             !.tool_iterations = counted,
                             !.assistant_text = TOOL_LOOP_TEXT,
                             !.pc = "finish",
                             !.awaits = @ + 1]
           ELSE [turn EXCEPT !.responded = @ + 1,
                             !.tool_iterations = counted,
                             !.llm_messages = Append(@, [role |-> "assistant",
                                                         content |-> <<>>]),
                             !._next_id = 1,
                             !.sent = <<Request("initialize", 1)>>,
                             !.pc = "initializing",
                             !.awaits = @ + 1],
         rows |-> table]

\* mcp.py 422-424, 384, 171-174: initialize is answered; the notification and
\* the tools/call request are written
SessionInitialized(c, turn, table) ==
    [turn |-> [turn EXCEPT
                 !._next_id = @ + 1,
                 !.sent = @ \o <<Notification("notifications/initialized"),
                                Request("tools/call", turn._next_id + 1)>>,
                 !.pc = "calling",
                 !.awaits = @ + 1],
     rows |-> table]

\* mcp.py 175-183, 386-387, 426-428 and lines 500-553: the tool's result comes
\* back and joins the message list; the session writes its shutdown request
ToolAnswered(c, turn, table) ==
    [turn |-> [turn EXCEPT
                 !.llm_messages = Append(@, [role |-> "tool",
                                             content |-> turn.script.result]),
                 !._next_id = @ + 1,
                 !.sent = Append(@, Request("shutdown", turn._next_id + 1)),
                 !.pc = "closing",
                 !.awaits = @ + 1],
     rows |-> table]

\* mcp.py 388-390: the session is closed and the loop asks the model again
SessionClosed(c, turn, table) ==
    [turn |-> [turn EXCEPT !.pc = "chat", !.awaits = @ + 1],
     rows |-> table]

\* lines 559-579: the reply is decided, added and committed
Finished(c, turn, table) ==
    LET text == ReplyText(turn.assistant_text)
    IN  [turn |-> [turn EXCEPT !.assistant_text = text, !.reply = text,
                               !.pc = "done", !.awaits = @ + 1],
         rows |-> Append(table, [session_id |-> turn.script.session,
                                 role |-> "assistant", content |-> text])]

\* the step a coroutine takes from where it stands
Resumed(c, turn, table) ==
    CASE turn.pc = "idle" -> Started(c, turn, table)
      [] turn.pc = "history" -> HistoryLoaded(c, turn, table)
      [] turn.pc = "chat" -> ModelResponded(c, turn, table)
      [] turn.pc = "initializing" -> SessionInitialized(c, turn, table)
      [] turn.pc = "calling" -> ToolAnswered(c, turn, table)
      [] turn.pc = "closing" -> SessionClosed(c, turn, table)
      [] turn.pc = "finish" -> Finished(c, turn, table)
      [] OTHER -> [turn |-> turn, rows |-> table]

\* the coroutine of conversation c is resumed at position at
Resume(c, at) ==
    /\ turns[c].pc = at
    /\ LET after == Resumed(c, turns[c], rows)
       IN  /\ turns' = [turns EXCEPT ![c] = after.turn]
           /\ rows' = after.rows
    /\ UNCHANGED <<turn_vars, fn_vars, stdio_vars, http_vars>>

ConcStart == \E c \in Conversations : Resume(c, "idle")
ConcLoadHistory == \E c \in Conversations : Resume(c, "history")
ConcModelResponds == \E c \in Conversations : Resume(c, "chat")
ConcSessionInitialized == \E c \in Conversations : Resume(c, "initializing")
ConcToolAnswered == \E c \in Conversations : Resume(c, "calling")
ConcSessionClosed == \E c \in Conversations : Resume(c, "closing")
ConcFinish == \E c \in Conversations : Resume(c, "finish")

ConcInit ==
    /\ cfg = IdleCfg
    /\ TurnInit
    /\ FnIdle
    /\ StdioIdle
    /\ HttpIdle
    /\ turns \in [Conversations -> {InitialTurn(script) : script \in Scripts}]
    /\ \A c \in Conversations :
          turns[c].script.session = c /\ turns[c].script.user = <<"Hello">>
    /\ rows = <<>>

ConcNext ==
    \/ ConcStart
    \/ ConcLoadHistory
    \/ ConcModelResponds
    \/ ConcSessionInitialized
    \/ ConcToolAnswered
    \/ ConcSessionClosed
    \/ ConcFinish

ConcSpec == ConcInit /\ [][ConcNext]_vars

\* two requests for the same session, received one after the other
SharedInit ==
    /\ cfg = IdleCfg
    /\ TurnInit
    /\ FnIdle
    /\ StdioIdle
    /\ HttpIdle
    /\ turns \in [Conversations -> {InitialTurn(script) : script \in Scripts}]
    /\ \A c \in Conversations : turns[c].script.session = "c1"
    /\ turns["c1"].script.user = <<"Hello">>
    /\ turns["c2"].script.user = <<"Again">>
    /\ rows = <<>>

SharedSpec == SharedInit /\ [][ConcNext]_vars

\* the same turn running with no other: its locals and its conversation's rows
\* after n awaits
RECURSIVE Alone(_, _, _)
Alone(c, script, n) ==
    IF n = 0
    THEN [turn |-> InitialTurn(script), rows |-> <<>>]
    ELSE LET before == Alone(c, script, n - 1)
         IN  Resumed(c, before.turn, before.rows)

-----------------------------------------------------------------------------
(* C23: no state is shared between turns that run at the same time: for any  *)
(* interleaving of two turns of different conversations, each turn's round   *)
(* counter, message list and transport-session request ids are what they     *)
(* would be had the turn run alone, and so are its reply and the rows of its *)
(* conversation.                                                              *)

C23_TurnsEvolveAsIfAlone ==
    \A c \in DOMAIN turns :
        LET alone == Alone(c, turns[c].script, turns[c].awaits)
        IN  /\ turns[c].tool_iterations = alone.turn.tool_iterations
            /\ turns[c].llm_messages = alone.turn.llm_messages
            /\ turns[c].sent = alone.turn.sent
            /\ turns[c]._next_id = alone.turn._next_id
            /\ turns[c].reply = alone.turn.reply
            /\ turns[c].pc = alone.turn.pc
            /\ SelectSeq(rows, LAMBDA r : r.session_id = turns[c].script.session)
                  = alone.rows

C23_Witness ==
    /\ DOMAIN turns = Conversations
    /\ turns["c1"].pc = "calling"
    /\ turns["c1"].tool_iterations = 2
    /\ turns["c2"].pc = "closing"
    /\ turns["c2"].tool_iterations = 1
    /\ turns["c2"]._next_id = 3
    /\ Len(rows) = 2
    /\ rows[1].session_id = "c2"

-----------------------------------------------------------------------------
(* C31: closing a process session attempts a shutdown request (its failure   *)
(* ignored), then closes the child's input stream, then awaits the process;  *)
(* a terminate signal is sent only if that wait timed out and a force-kill   *)
(* only if a second wait timed out too; a process that exits within the      *)
(* first wait is never signalled.                                             *)

C31_CloseOrder ==
    /\ signals \in {<<>>, <<"terminate">>, <<"terminate", "kill">>}
    /\ stdin_closed => (sent # <<>> /\ sent[Len(sent)].method = "shutdown")
    /\ (session_pc \in {"waiting", "terminating"} \/ signals # <<>> \/ closed)
          => stdin_closed
    /\ signals # <<>> =>
          /\ server.exits # "on_close"
          /\ server.body # "closed"
          /\ server.shutdown # "closed"
    /\ Len(signals) = 2 => server.exits = "on_kill"
    /\ _process = "terminated" => signals = <<"terminate">>
    /\ _process = "killed" => signals = <<"terminate", "kill">>
    /\ (closed /\ _process = "exited") => signals = <<>>

C31_Witness ==
    /\ closed
    /\ server.shutdown = "timeout"
    /\ signals = <<"terminate", "kill">>
    /\ stdin_closed
    /\ _process = "killed"

-----------------------------------------------------------------------------
(* C32: closing a transport session (process or streaming HTTP) never        *)
(* raises, whatever the state of the server: a failing or unanswered         *)
(* shutdown request, a failing termination call, a closed stream and an      *)
(* exited or unresponsive process are absorbed, and what the caller sees is  *)
(* what the session's body returned or raised.                                *)

Closing ==
    session_pc \in {"shutting_down", "waiting", "terminating",
                    "h_shutting_down", "h_deleting"}
CloseStarted == \E i \in DOMAIN sent : sent[i].method = "shutdown"
BodyOutcome == IF server.body \in {"result", "error"} THEN "result" ELSE "error"

C32_CloseNeverRaises ==
    /\ Closing => (CloseStarted /\ outcome = BodyOutcome)
    /\ (CloseStarted /\ session_pc = "returned") => (closed /\ outcome = BodyOutcome)
    /\ CloseStarted => (Closing \/ session_pc = "returned")

C32_Witness ==
    /\ closed
    /\ session_pc = "returned"
    /\ server.body \in {"timeout", "failure"}
    /\ server.shutdown \in {"timeout", "failure"}
    /\ outcome = "error"

-----------------------------------------------------------------------------
(* C33: closing a streaming-HTTP session sends a best-effort shutdown        *)
(* request, then a best-effort termination (DELETE) call carrying the        *)
(* captured session token - only when a token was captured - and then        *)
(* releases the HTTP client; the client is released even when the shutdown   *)
(* request or the termination call fails.                                     *)

C33_HttpCloseOrder ==
    /\ \A i \in DOMAIN sent :
          sent[i].method = "DELETE" =>
            /\ i = Len(sent)
            /\ i > 1
            /\ sent[i - 1].method = "shutdown"
            /\ sent[i].session # <<>>
            /\ sent[i].session = _session_id
            /\ session_pc \in {"h_deleting", "returned"}
    /\ session_pc \in {"h_shutting_down", "h_deleting"} => _client = "open"
    /\ _client = "closed" =>
          /\ CloseStarted
          /\ sent[Len(sent)].method = IF _session_id # <<>> THEN "DELETE" ELSE "shutdown"
    /\ (CloseStarted /\ session_pc = "returned") => _client = "closed"

C33_Witness ==
    /\ _client = "closed"
    /\ server.shutdown = "failure"
    /\ server.delete = "failure"
    /\ sent[Len(sent)].method = "DELETE"
    /\ sent[Len(sent)].session = <<"A">>

-----------------------------------------------------------------------------
(* C34: list_tools paginates within one session: it sends one tools/list     *)
(* request per page, passing the cursor returned by the previous page (none  *)
(* on the first), stops at the first page that supplies no cursor, and       *)
(* returns the tools of all pages concatenated in page order with none lost  *)
(* or duplicated.                                                             *)

RECURSIVE ConcatPages(_, _)
ConcatPages(srv, cursors) ==
    IF cursors = <<>>
    THEN <<>>
    ELSE PageResult(srv, Head(cursors)).tools \o ConcatPages(srv, Tail(cursors))

C34_ListToolsPaginates ==
    (fn_call.fn = "list_tools" /\ fn_result # Pending) =>
        LET srv == fn_call.srv
            cursors == fn_result.value.cursors
            tools == fn_result.value.tools
        IN  /\ fn_result.state = "returned"
            /\ cursors # <<>>
            /\ cursors[1] = 0
            /\ \A i \in 2..Len(cursors) :
                  cursors[i] = PageResult(srv, cursors[i - 1]).nextCursor
            /\ \A i \in 1..(Len(cursors) - 1) :
                  PageResult(srv, cursors[i]).nextCursor # 0
            /\ PageResult(srv, cursors[Len(cursors)]).nextCursor = 0
            /\ tools = ConcatPages(srv, cursors)
            /\ \A i, j \in DOMAIN tools : i # j => tools[i] # tools[j]

C34_Witness ==
    /\ fn_call.fn = "list_tools"
    /\ fn_result # Pending
    /\ fn_result.value.cursors = <<0, 1, 2>>
    /\ Len(fn_result.value.tools) = 5
    /\ fn_call.srv[2].next = 0

-----------------------------------------------------------------------------
(* C35: in the first model request of every turn the last message is that    *)
(* turn's own user message, also when another turn of the same session runs  *)
(* at the same time and persists its user or assistant message between this  *)
(* turn's user-message commit and this turn's history read.                   *)

C35_OwnUserMessageLast ==
    \A c \in DOMAIN turns :
        (turns[c].pc = "chat" /\ turns[c].responded = 0) =>
            /\ turns[c].llm_messages # <<>>
            /\ turns[c].llm_messages[Len(turns[c].llm_messages)]
                  = Msg("user", turns[c].script.user)

-----------------------------------------------------------------------------
(* C36: during a turn, every tool execution targets a server that is in the  *)
(* session's list of enabled servers; a call whose function name is not in   *)
(* the lookup built for the turn, such as a name that decodes to a           *)
(* configured server that is not enabled, is never executed against it.      *)

EnabledServers == {cfg.enabled_mcp_servers[i] : i \in DOMAIN cfg.enabled_mcp_servers}

C36_ExecutesOnlyEnabled ==
    (pc = "awaitTool" /\ inflight.server_name \in ConfiguredServers)
        => inflight.server_name \in EnabledServers

-----------------------------------------------------------------------------
(* C37: a tools/call whose JSON-RPC response carries an error object instead *)
(* of a result is reported by execute as a failure, an exception or an       *)
(* envelope with isError = TRUE, and never as an envelope with isError =     *)
(* FALSE.                                                                     *)

C37_ErrorResponseIsFailure ==
    (/\ fn_call.fn = "call_tool"
     /\ "error" \in DOMAIN fn_call.response
     /\ fn_result # Pending)
    => \/ fn_result.state = "raised"
       \/ fn_result.value.isError

-----------------------------------------------------------------------------
(* C38: whenever _process_user_turn has persisted the turn's user message    *)
(* and has ended, normally or with an error (rejected upload, failing        *)
(* retrieval, unexpected model-client exception), an assistant message for   *)
(* that turn has been persisted as well.                                      *)

C38_AllOrNothing ==
    (pc \in {"done", "raised"} /\ Len(db_messages) > Len(cfg.history))
        => /\ Len(db_messages) = Len(cfg.history) + 2
           /\ db_messages[Len(db_messages)].role = "assistant"

-----------------------------------------------------------------------------
(* C39: when no tool definition was built for the turn (no server enabled,   *)
(* or every listing failed), tool calls requested by the model are never     *)
(* executed and do not count as a round: the model is invoked exactly once,  *)
(* no tool-execution step is recorded, and the reply is the model's content  *)
(* or, if that is empty, the fixed fallback message.                          *)

\* the turn has built no tool definition and the model's first response
\* requests tool calls
RequestsToolsWithoutDefinitions ==
    /\ tools_payload = <<>>
    /\ responses # <<>>
    /\ responses[1].kind = "message"
    /\ responses[1].tool_calls # <<>>

\* nothing of the requested calls is run or counted
NoRoundRun ==
    /\ pc \in {"finish", "done"}
    /\ Len(requests) = 1
    /\ Len(responses) = 1
    /\ tool_iterations = 0
    /\ exec_log = <<>>
    /\ inflight = NoCall
    /\ \A i \in 1..Len(steps) : steps[i].type # "mcp"

\* C39 with the reply taken as the content the way the model returned it
C39_NoToolsReplyIsContent ==
    RequestsToolsWithoutDefinitions =>
        /\ NoRoundRun
        /\ pc = "done" =>
              reply = IF responses[1].content = <<>> THEN EMPTY_RESPONSE_TEXT
                      ELSE responses[1].content

\* C39 with the reply the code builds: the content with leading and trailing
\* whitespace removed, or the fallback when nothing is left
C39_NoToolsNoRound ==
    RequestsToolsWithoutDefinitions =>
        /\ NoRoundRun
        /\ pc = "done" =>
              reply = IF Strip(responses[1].content) = <<>> THEN EMPTY_RESPONSE_TEXT
                      ELSE Strip(responses[1].content)

C39_Witness ==
    /\ RequestsToolsWithoutDefinitions
    /\ cfg.enabled_mcp_servers # <<>>
    /\ pc = "done"
    /\ reply = <<"Let me check.">>

-----------------------------------------------------------------------------
(* C40: the trace run of a turn follows start -> steps -> finish: start_run  *)
(* is called once before any step is added, finish_run is called exactly     *)
(* once after the last step, and on every way the turn loop can end (final    *)
(* answer, loop-guard abort, model transport failure) the run leaves status   *)
(* "running" and is finished with status "completed"; no step is added to a   *)
(* run after it was finished.                                                 *)

\* start_run: the run appears with status "running" and no step yet
RunStarted ==
    run_status = "none" /\ run_status' = "running" /\ steps = <<>>

\* finish_run: the running run of a turn whose loop has ended is completed
RunFinished ==
    /\ run_status = "running"
    /\ run_status' = "completed"
    /\ pc = "finish"
    /\ steps' = steps

C40_RunLifecycle ==
    /\ [](steps # <<>> => run_status # "none")
    /\ [](pc \in {"invoke", "tools", "awaitTool", "finish"} => run_status = "running")
    /\ [](pc = "done" => run_status = "completed")
    /\ [][run_status' # run_status => (RunStarted \/ RunFinished)]_vars
    /\ [][run_status = "completed" => steps' = steps]_vars

C40_Witness ==
    /\ pc = "done"
    /\ run_status = "completed"
    /\ reply = TOOL_LOOP_TEXT
    /\ \E i \in 1..Len(steps) : steps[i].type = "mcp"

====
